---------------------------- MODULE Spec2Model ----------------------------
(***************************************************************************)
(* Federated query planner (package plan): the data source selector       *)
(* (FilterDataSources / findBestDataSourceSet / findUsedDataSources) and  *)
(* the Planner (NewPlanner, Plan, findPlanningPaths, selectOperation).    *)
(*                                                                         *)
(* Two specifications share the module:                                    *)
(*   FilterSpec  the selector as a pure function of (operation, report,    *)
(*               data source list), inputs drawn in FilterInit;            *)
(*   Spec        the life of one Planner: construction, Plan calls and     *)
(*               the stages of a Plan call.                                *)
(***************************************************************************)
EXTENDS Integers, Sequences, FiniteSets, TLC

VARIABLES
    \* ---- selector (FilterSpec) ----
    fOperation,     \* the operation: its fields in traversal order, each <<TypeName, FieldName>>
    fDataSources,   \* the caller's []DataSourceConfiguration
    fReport,        \* TRUE iff the report holds an error once the operation is walked
    fPc,            \* "input" | "returned"
    fResult,        \* what FilterDataSources returned: [filtered, err], and the
                    \* caller's list as the call left it (dataSources)
    fStack,         \* SearchSpec: the calls of findBestDataSourceSet that have not
                    \* returned, the outermost first
    \* ---- planner (Spec) ----
    newConfig,      \* the Configuration passed to NewPlanner
    newErr,         \* the error NewPlanner returned
    p,              \* the *Planner NewPlanner returned (Nil: none)
    pc,             \* where the caller / the running Plan call stands
    call,           \* the running Plan call: its arguments (operation, operationName,
                    \* opts, report), its locals (i of findPlanningPaths, key of the
                    \* register loop) and the Plan value it returned (plan)
    passes,         \* history: configurationWalker.Walk calls made by this Plan call
    ran,            \* history: the stages this Plan call has started
    env,            \* ReuseSpec: what the collaborators answer to given inputs (Nil: anything)
    done,           \* ReuseSpec: history, the Plan calls that returned before the running one
    \* ---- subscription handler (HandlerSpec) ----
    handler,        \* the Handler with its client: configuration, connection,
                    \* messages in flight, position of Handle (Nil: none)
    \* ---- base schema merge (SchemaSpec) ----
    schema          \* the schema definition document under MergeDefinitionWithBaseSchema,
                    \* the query node ref handleSchema used, the error returned and
                    \* the position of the caller (Nil: none)

filterVars == <<fOperation, fDataSources, fReport, fPc, fResult, fStack>>
plannerVars == <<newConfig, newErr, p, pc, call, passes, ran, env, done>>

vars == <<fOperation, fDataSources, fReport, fPc, fResult, fStack,
          newConfig, newErr, p, pc, call, passes, ran, env, done, handler, schema>>

-----------------------------------------------------------------------------
(* Bounds of the selector's inputs *)

MaxDataSources == 3     \* longest data source list
MaxFields == 3          \* most field occurrences in the operation

\* (enclosing type name, field name) pairs an operation can select
Nodes == { <<"Query", "a">>, <<"A", "x">>, <<"A", "id">> }
\* the pairs a data source may list as root node, and as child node
RootCapable == { <<"Query", "a">>, <<"A", "id">> }
ChildCapable == { <<"A", "x">> }

\* root/child node tables of a data source
NodeTables == [root : SUBSET RootCapable, child : SUBSET ChildCapable]

SeqsUpTo(S, n) == UNION { [1..k -> S] : k \in 0..n }

\* data source lists: the id of a source is its place in the list (ids are distinct)
DataSourceLists ==
    { [i \in 1..Len(ts) |-> [id |-> i, root |-> ts[i].root, child |-> ts[i].child]] :
        ts \in SeqsUpTo(NodeTables, MaxDataSources) }

Operations == SeqsUpTo(Nodes, MaxFields)

-----------------------------------------------------------------------------
(* Errors *)

NoErr == [kind |-> "nil"]
\* &errOperationFieldNotResolved{TypeName, FieldName}
errOperationFieldNotResolved(typeName, fieldName) ==
    [kind |-> "errOperationFieldNotResolved", TypeName |-> typeName, FieldName |-> fieldName]
\* the report itself returned as error (its HasErrors() was true)
ReportErr == [kind |-> "report"]

HasRootNode(ds, typeName, fieldName) == <<typeName, fieldName>> \in ds.root
HasChildNode(ds, typeName, fieldName) == <<typeName, fieldName>> \in ds.child

-----------------------------------------------------------------------------
(* findUsedDataSourceVisitor.EnterField: v is [dataSources, err] where        *)
(* dataSources is the list of [DataSource, UsedNodes]                         *)

\* the place of the first data source that has the node, 0 when none has it
FirstCovering(dataSources, typeName, fieldName) ==
    LET hits == { i \in 1..Len(dataSources) :
                    \/ HasRootNode(dataSources[i].DataSource, typeName, fieldName)
                    \/ HasChildNode(dataSources[i].DataSource, typeName, fieldName) }
    IN IF hits = {} THEN 0 ELSE CHOOSE i \in hits : \A j \in hits : i <= j

\* variant: the `break` is missing, every covering source gets the used node
EnterField_NoBreak(v, field) ==
    IF FirstCovering(v.dataSources, field[1], field[2]) # 0
    THEN [v EXCEPT !.dataSources =
            [i \in 1..Len(@) |->
                IF \/ HasRootNode(@[i].DataSource, field[1], field[2])
                   \/ HasChildNode(@[i].DataSource, field[1], field[2])
                THEN [@[i] EXCEPT !.UsedNodes = Append(@, field)]
                ELSE @[i]]]
    ELSE [v EXCEPT !.err = errOperationFieldNotResolved(field[1], field[2])]

EnterField(v, field) ==
    LET typeName == field[1]
        fieldName == field[2]
        k == FirstCovering(v.dataSources, typeName, fieldName)
    IN IF k # 0
       THEN [v EXCEPT !.dataSources[k].UsedNodes = Append(@, <<typeName, fieldName>>)]
       ELSE [v EXCEPT !.err = errOperationFieldNotResolved(typeName, fieldName)]

\* walker.Walk with the EnterField visitor registered: every field, in order
RECURSIVE WalkFields(_, _, _)
WalkFields(v, operation, n) ==
    IF n > Len(operation) THEN v
    ELSE WalkFields(EnterField(v, operation[n]), operation, n + 1)

UsedOnly(dataSourcesToVisit) == SelectSeq(dataSourcesToVisit, LAMBDA u : Len(u.UsedNodes) > 0)

\* variant: the `if visitor.err != nil` check is missing
findUsedDataSources_IgnoreErr(operation, report, dataSources) ==
    LET dataSourcesToVisit ==
            [ii \in 1..Len(dataSources) |-> [DataSource |-> dataSources[ii], UsedNodes |-> <<>>]]
        visitor == WalkFields([dataSources |-> dataSourcesToVisit, err |-> NoErr], operation, 1)
    IN IF report THEN [planned |-> <<>>, err |-> ReportErr]
       ELSE [planned |-> UsedOnly(visitor.dataSources), err |-> NoErr]

findUsedDataSources(operation, report, dataSources) ==
    LET dataSourcesToVisit ==
            [ii \in 1..Len(dataSources) |-> [DataSource |-> dataSources[ii], UsedNodes |-> <<>>]]
        visitor == WalkFields([dataSources |-> dataSourcesToVisit, err |-> NoErr], operation, 1)
    IN IF report THEN [planned |-> <<>>, err |-> ReportErr]
       ELSE IF visitor.err # NoErr THEN [planned |-> <<>>, err |-> visitor.err]
       ELSE [planned |-> UsedOnly(visitor.dataSources), err |-> NoErr]

\* Go slices: mem is the list of backing arrays, a slice is [arr, lo, len, cap],
\* a window on array arr; Hole is an array cell never written
Hole == [hole |-> TRUE]
Contents(mem, slice) == [i \in 1..slice.len |-> mem[slice.arr][slice.lo + i]]
\* s[from:to]
Reslice(slice, from, to) ==
    [arr |-> slice.arr, lo |-> slice.lo + from, len |-> to - from, cap |-> slice.cap - from]
\* make([]T, 0, cap): a new backing array
Make(mem, cap) ==
    [mem |-> Append(mem, [i \in 1..cap |-> Hole]),
     slice |-> [arr |-> Len(mem) + 1, lo |-> 0, len |-> 0, cap |-> cap]]
\* append(slice, elems...): written in place while the capacity allows it, into
\* a new backing array otherwise
AppendTo(mem, slice, elems) ==
    IF slice.len + Len(elems) <= slice.cap
    THEN [mem |-> [mem EXCEPT ![slice.arr] =
                     [i \in 1..Len(@) |->
                        IF i > slice.lo + slice.len /\ i <= slice.lo + slice.len + Len(elems)
                        THEN elems[i - slice.lo - slice.len] ELSE @[i]]],
          slice |-> [slice EXCEPT !.len = @ + Len(elems)]]
    ELSE [mem |-> Append(mem, Contents(mem, slice) \o elems),
          slice |-> [arr |-> Len(mem) + 1, lo |-> 0,
                     len |-> slice.len + Len(elems), cap |-> slice.len + Len(elems)]]

\* variant: `subset := append(dataSources[:exclude], dataSources[exclude+1:]...)`
dataSourcesSubset_InPlace(dataSources, exclude) ==
    LET mem == << dataSources >>
        given == [arr |-> 1, lo |-> 0, len |-> Len(dataSources), cap |-> Len(dataSources)]
        appended == AppendTo(mem, Reslice(given, 0, exclude - 1),
                             Contents(mem, Reslice(given, exclude, Len(dataSources))))
    IN [subset |-> Contents(appended.mem, appended.slice),
        dataSources |-> Contents(appended.mem, given)]

\* the subset without the data source at place exclude (places count from 1),
\* and the caller's list as the three statements leave it
dataSourcesSubset(dataSources, exclude) ==
    LET mem == << dataSources >>
        given == [arr |-> 1, lo |-> 0, len |-> Len(dataSources), cap |-> Len(dataSources)]
        made == Make(mem, Len(dataSources) - 1)
        first == AppendTo(made.mem, made.slice,
                          Contents(made.mem, Reslice(given, 0, exclude - 1)))
        second == AppendTo(first.mem, first.slice,
                           Contents(first.mem, Reslice(given, exclude, Len(dataSources))))
    IN [subset |-> Contents(second.mem, second.slice),
        dataSources |-> Contents(second.mem, given)]

\* variant: the error of a subset is never recognised, so it is returned
IsFieldNotResolved_Never(err) == FALSE

\* errors.As(err, &rerr) with rerr *errOperationFieldNotResolved
IsFieldNotResolved(err) == err.kind = "errOperationFieldNotResolved"

\* variant: the comparison is the wrong way round
IsBetter_Flipped(result, best) == result # <<>> /\ Len(result) > Len(best)

\* variant: a result of equal size replaces the best so far
IsBetter_OrEqual(result, best) == result # <<>> /\ Len(result) <= Len(best)

\* result != nil && len(result) < len(best); a nil slice is the empty sequence
IsBetter(result, best) == result # <<>> /\ Len(result) < Len(best)

RECURSIVE findBestDataSourceSet(_, _, _)
RECURSIVE ExcludeLoop(_, _, _, _, _)

\* the loop `for excluded := range dataSources` from the given index on; every
\* result carries the caller's list as the call leaves it
ExcludeLoop(operation, report, dataSources, excluded, best) ==
    IF excluded > Len(dataSources)
    THEN [planned |-> best, err |-> NoErr, dataSources |-> dataSources]
    ELSE LET sub == dataSourcesSubset(dataSources, excluded)
             r == findBestDataSourceSet(operation, report, sub.subset)
         IN IF r.err # NoErr
            THEN IF IsFieldNotResolved(r.err)
                 THEN ExcludeLoop(operation, report, sub.dataSources, excluded + 1, best)
                 ELSE [planned |-> <<>>, err |-> r.err, dataSources |-> sub.dataSources]
            ELSE IF IsBetter(r.planned, best)
                 THEN ExcludeLoop(operation, report, sub.dataSources, excluded + 1, r.planned)
                 ELSE ExcludeLoop(operation, report, sub.dataSources, excluded + 1, best)

findBestDataSourceSet(operation, report, dataSources) ==
    LET r == findUsedDataSources(operation, report, dataSources)
    IN IF r.err # NoErr THEN [planned |-> <<>>, err |-> r.err, dataSources |-> dataSources]
       ELSE IF Len(r.planned) = 1
            THEN [planned |-> r.planned, err |-> NoErr, dataSources |-> dataSources]
       ELSE ExcludeLoop(operation, report, dataSources, 1, r.planned)

\* variant: the data sources are put in front of those already filtered
FilterDataSources_Prepending(operation, report, dataSources) ==
    LET r == findBestDataSourceSet(operation, report, dataSources)
    IN IF r.err # NoErr
       THEN [filtered |-> <<>>, err |-> r.err, dataSources |-> r.dataSources]
       ELSE [filtered |-> [i \in 1..Len(r.planned) |->
                              r.planned[Len(r.planned) + 1 - i].DataSource],
             err |-> NoErr, dataSources |-> r.dataSources]

\* lines 739-751
FilterDataSources(operation, report, dataSources) ==
    LET r == findBestDataSourceSet(operation, report, dataSources)
    IN IF r.err # NoErr
       THEN [filtered |-> <<>>, err |-> r.err, dataSources |-> r.dataSources]
       ELSE [filtered |-> [i \in 1..Len(r.planned) |-> r.planned[i].DataSource],
             err |-> NoErr, dataSources |-> r.dataSources]

-----------------------------------------------------------------------------
(* Values shared by the two specifications *)

Nil == [nil |-> TRUE]

\* the planner variables before NewPlanner is called
PlannerIdle ==
    /\ newConfig = Nil
    /\ newErr = NoErr
    /\ p = Nil
    /\ pc = "new"
    /\ call = Nil
    /\ passes = 0
    /\ ran = {}
    /\ env = Nil
    /\ done = <<>>

\* the selector variables when no FilterDataSources call is modelled
FilterIdle ==
    /\ fOperation = <<>>
    /\ fDataSources = <<>>
    /\ fReport = FALSE
    /\ fPc = "off"
    /\ fResult = [filtered |-> <<>>, err |-> NoErr, dataSources |-> <<>>]
    /\ fStack = <<>>

-----------------------------------------------------------------------------
(* FilterSpec: one call of FilterDataSources on drawn inputs *)

FilterInit ==
    /\ fOperation \in Operations
    /\ fDataSources \in DataSourceLists
    /\ fReport \in BOOLEAN
    /\ fPc = "input"
    /\ fResult = [filtered |-> <<>>, err |-> NoErr, dataSources |-> <<>>]
    /\ fStack = <<>>
    /\ PlannerIdle
    /\ handler = Nil
    /\ schema = Nil

CallFilterDataSources ==
    /\ fPc = "input"
    /\ fResult' = FilterDataSources(fOperation, fReport, fDataSources)
    /\ fPc' = "returned"
    /\ UNCHANGED <<fOperation, fDataSources, fReport, fStack>>
    /\ UNCHANGED <<plannerVars, handler, schema>>

FilterNext == CallFilterDataSources

FilterSpec == FilterInit /\ [][FilterNext]_vars

-----------------------------------------------------------------------------
(* SearchSpec: the same call, statement by statement.  Every call of
   findBestDataSourceSet that has not returned is a frame of fStack: its list,
   where it stands ("call": entered; "loop": in the loop, about to try the
   exclusion `excluded`; "done": at a return statement), the best list so far
   and the error it returns.  The walker is not part of the sources: any walk
   may leave an error in the report, which fReport then holds. *)

Frame(dataSources) ==
    [dataSources |-> dataSources, state |-> "call", excluded |-> 1,
     planned |-> <<>>, best |-> <<>>, err |-> NoErr]

Top == fStack[Len(fStack)]

\* the frame stands at a return statement
AtReturn(frame) ==
    \/ frame.state = "done"
    \/ frame.state = "loop" /\ frame.excluded > Len(frame.dataSources)

\* the operations of the search: the fields Query.a, A.x, A.id in this order,
\* all of them or the first ones only, or none
SearchOperations ==
    { SubSeq(<< <<"Query", "a">>, <<"A", "x">>, <<"A", "id">> >>, 1, n) : n \in 0..MaxFields }

SearchInit == FilterIdle /\ PlannerIdle /\ handler = Nil /\ schema = Nil

\* FilterDataSources is called and calls findBestDataSourceSet (line 740)
SearchCall(operation, report, dataSources) ==
    /\ fPc = "off"
    /\ fOperation' = operation
    /\ fDataSources' = dataSources
    /\ fReport' = report
    /\ fStack' = << Frame(dataSources) >>
    /\ fPc' = "search"
    /\ UNCHANGED fResult
    /\ UNCHANGED <<plannerVars, handler, schema>>

\* variant: a single used source does not end the call
AfterFindUsed_NoBaseCase(frame, r) ==
    IF r.err # NoErr THEN [frame EXCEPT !.state = "done", !.err = r.err]
    ELSE [frame EXCEPT !.state = "loop", !.planned = r.planned, !.best = r.planned]

\* lines 840-847: the frame after findUsedDataSources returned r
AfterFindUsed(frame, r) ==
    IF r.err # NoErr THEN [frame EXCEPT !.state = "done", !.err = r.err]
    ELSE IF Len(r.planned) = 1
         THEN [frame EXCEPT !.state = "done", !.planned = r.planned, !.best = r.planned]
    ELSE [frame EXCEPT !.state = "loop", !.planned = r.planned, !.best = r.planned]

\* lines 836-847: the call on top runs findUsedDataSources on its list
SearchEnter(walkFails) ==
    /\ fPc = "search"
    /\ Top.state = "call"
    /\ fReport' = (fReport \/ walkFails)
    /\ fStack' = [fStack EXCEPT ![Len(fStack)] =
                    AfterFindUsed(@, findUsedDataSources(fOperation, fReport', @.dataSources))]
    /\ UNCHANGED <<fOperation, fDataSources, fPc, fResult>>
    /\ UNCHANGED <<plannerVars, handler, schema>>

\* lines 848-851: the loop makes the subset and calls itself on it
SearchRecurse ==
    /\ fPc = "search"
    /\ Top.state = "loop"
    /\ Top.excluded <= Len(Top.dataSources)
    /\ LET sub == dataSourcesSubset(Top.dataSources, Top.excluded)
       IN fStack' = Append([fStack EXCEPT ![Len(fStack)].dataSources = sub.dataSources],
                           Frame(sub.subset))
    /\ UNCHANGED <<fOperation, fDataSources, fReport, fPc, fResult>>
    /\ UNCHANGED <<plannerVars, handler, schema>>

\* lines 852-862: the caller's frame after the call for its exclusion returned
AfterResult(frame, result) ==
    IF result.err # NoErr
    THEN IF IsFieldNotResolved(result.err)
         THEN [frame EXCEPT !.excluded = @ + 1]
         ELSE [frame EXCEPT !.state = "done", !.best = <<>>, !.err = result.err]
    ELSE IF IsBetter(result.best, frame.best)
         THEN [frame EXCEPT !.excluded = @ + 1, !.best = result.best]
         ELSE [frame EXCEPT !.excluded = @ + 1]

\* a return statement of findBestDataSourceSet: to the call that made this
\* one, or to FilterDataSources (lines 739-751)
SearchReturn ==
    /\ fPc = "search"
    /\ AtReturn(Top)
    /\ IF Len(fStack) = 1
       THEN /\ fResult' = IF Top.err # NoErr
                          THEN [filtered |-> <<>>, err |-> Top.err, dataSources |-> Top.dataSources]
                          ELSE [filtered |-> [i \in 1..Len(Top.best) |-> Top.best[i].DataSource],
                                err |-> NoErr, dataSources |-> Top.dataSources]
            /\ fPc' = "returned"
            /\ fStack' = <<>>
       ELSE /\ fStack' = [k \in 1..(Len(fStack) - 1) |->
                            IF k = Len(fStack) - 1 THEN AfterResult(fStack[k], Top)
                            ELSE fStack[k]]
            /\ UNCHANGED <<fPc, fResult>>
    /\ UNCHANGED <<fOperation, fDataSources, fReport>>
    /\ UNCHANGED <<plannerVars, handler, schema>>

SearchNext ==
    \/ \E operation \in SearchOperations, report \in BOOLEAN, dataSources \in DataSourceLists :
          SearchCall(operation, report, dataSources)
    \/ \E walkFails \in BOOLEAN : SearchEnter(walkFails)
    \/ SearchRecurse
    \/ SearchReturn

SearchSpec == SearchInit /\ [][SearchNext]_vars

\* the statements of a call that has started, with either outcome of the walk
SearchStep == SearchEnter(TRUE) \/ SearchEnter(FALSE) \/ SearchRecurse \/ SearchReturn

\* the search is one sequential computation: once FilterDataSources is called,
\* a statement that can run does; nothing obliges the caller to call
SearchLiveSpec == SearchSpec /\ WF_vars(SearchStep)

-----------------------------------------------------------------------------
(* Planner: the inputs of NewPlanner and Plan *)

MaxConfigSources == 2   \* longest Configuration.DataSources

Space == " "
\* strings are sequences of characters
NameA == <<"A">>
NameB == <<"B">>

\* the data sources a Configuration can list
DataSourceS1 == [id |-> "ds1", root |-> { <<"Query", "a">> }, child |-> { <<"A", "x">> }]
DataSourceS2 == [id |-> "ds2", root |-> { <<"A", "id">> }, child |-> { <<"A", "x">> }]

Configurations ==
    { [DataSources |-> l, MinifySubgraphOperations |-> m,
       Fields |-> <<>>, DisableResolveFieldPositions |-> FALSE, Debug |-> FALSE] :
        l \in SeqsUpTo({DataSourceS1, DataSourceS2}, MaxConfigSources), m \in BOOLEAN }

\* response paths, as sequences of segments; "$0A" is the inline fragment on A
PathA == <<"query", "a">>
PathId == <<"query", "a", "id">>
FragmentOnA == <<"query", "a", "$0A">>
PathXInFragment == <<"query", "a", "$0A", "x">>
PathIdInFragment == <<"query", "a", "$0A", "id">>

\* operation documents: the names of the operation definitions, in order (the
\* empty name: an anonymous operation), the fields in traversal order with their
\* paths, the inline fragments with the type they are on, and the path the key
\* field gets when a pass adds it (next to the fragment, or inside it)
Documents ==
    { [operationDefinitions |-> <<>>, fields |-> <<>>, paths |-> <<>>, fragments |-> <<>>,
       keyPath |-> PathId],
      [operationDefinitions |-> << <<>> >>,
       fields |-> << <<"Query", "a">>, <<"A", "x">> >>,
       paths |-> << PathA, PathXInFragment >>,
       fragments |-> << [path |-> FragmentOnA, typeName |-> "A"] >>,
       keyPath |-> PathId],
      [operationDefinitions |-> << NameA >>,
       fields |-> << <<"Query", "a">> >>, paths |-> << PathA >>, fragments |-> <<>>,
       keyPath |-> PathId],
      [operationDefinitions |-> << NameA, NameB >>,
       fields |-> << <<"Query", "a">>, <<"A", "x">> >>,
       paths |-> << PathA, PathXInFragment >>,
       fragments |-> << [path |-> FragmentOnA, typeName |-> "A"] >>,
       keyPath |-> PathIdInFragment] }

\* the operationName argument
OperationNames == { <<>>, <<Space>>, NameA, <<Space, "A", Space>>, <<"C">> }

\* opts: IncludeQueryPlanInResponse() is given with the operation name A only
IncludeQueryPlan(operationName) == IF operationName = NameA THEN BOOLEAN ELSE {FALSE}

\* an error the caller's report may already hold when Plan is called
CallerError == [class |-> "external", err |-> "caller"]
Reports == { <<>>, <<CallerError>> }

\* the sets of fields a configuration pass can leave without a resolved path
MissingFieldSets == { {}, { <<"A", "x">> }, { <<"A", "x">>, <<"A", "id">> } }
\* the key field a configuration pass can add to the operation as required field
RequiredField == <<"A", "id">>

-----------------------------------------------------------------------------
(* operationreport.Report *)

HasErrors(report) == Len(report) > 0
AddExternalError(report, err) == Append(report, [class |-> "external", err |-> err])
AddInternalError(report, err) == Append(report, [class |-> "internal", err |-> err])

-----------------------------------------------------------------------------
(* NewPlanner *)

\* variant: the id is never put into dsIDs
RECURSIVE DuplicateId_NoInsert(_, _, _)
DuplicateId_NoInsert(dataSources, n, dsIDs) ==
    IF n > Len(dataSources) THEN Nil
    ELSE IF dataSources[n].id \in dsIDs THEN [id |-> dataSources[n].id]
    ELSE DuplicateId_NoInsert(dataSources, n + 1, dsIDs)

\* the loop over config.DataSources with the map dsIDs: the first id met twice,
\* Nil when the loop ends without a duplicate
RECURSIVE DuplicateId(_, _, _)
DuplicateId(dataSources, n, dsIDs) ==
    IF n > Len(dataSources) THEN Nil
    ELSE IF dataSources[n].id \in dsIDs THEN [id |-> dataSources[n].id]
    ELSE DuplicateId(dataSources, n + 1, dsIDs \cup {dataSources[n].id})

NewPlannerValue(config) ==
    LET dup == DuplicateId(config.DataSources, 1, {})
    IN IF dup # Nil
       THEN [planner |-> Nil, err |-> [kind |-> "duplicate datasource id", id |-> dup.id]]
       ELSE [planner |->
                [config |-> config,
                 configurationVisitor |->
                    [operationName |-> <<>>,
                     fieldConfigurations |-> config.Fields,
                     dataSources |-> <<>>,
                     secondaryRun |-> FALSE,
                     hasNewFields |-> FALSE,
                     missingPathTracker |-> {},
                     fieldsWaitingForDependency |-> FALSE,
                     nodeSuggestions |-> {},
                     nodeSuggestionHints |-> {},
                     planners |-> <<>>],
                 planningVisitor |->
                    [OperationName |-> <<>>,
                     disableResolveFieldPositions |-> config.DisableResolveFieldPositions,
                     includeQueryPlans |-> FALSE,
                     planners |-> <<>>,
                     Config |-> Nil,
                     plan |-> Nil]],
             err |-> NoErr]

NewPlanner(config) ==
    /\ pc = "new"
    /\ newConfig' = config
    /\ p' = NewPlannerValue(config).planner
    /\ newErr' = NewPlannerValue(config).err
    /\ pc' = IF NewPlannerValue(config).err = NoErr THEN "idle" ELSE "failed"
    /\ UNCHANGED <<env, done, call, passes, ran>>
    /\ UNCHANGED <<filterVars, handler, schema>>

-----------------------------------------------------------------------------
(* Planner.Plan: entry *)

\* variant: the report is not looked at after a stage
AfterStage_Continue(report, next) == next

\* variant: only the errors added since Plan was called count
AfterStage_OwnErrors(report, next) ==
    IF Len(report) > Len(call.reportAtEntry) THEN "returned" ELSE next

\* `if report.HasErrors() { return }` after a stage: the next position
AfterStage(report, next) == IF HasErrors(report) THEN "returned" ELSE next

Plan(operation, operationName, report, includeQueryPlanInResponse) ==
    /\ pc = "idle"
    /\ call' = [document |-> operation,
                operation |-> operation,
                operationName |-> operationName,
                opts |-> [includeQueryPlanInResponse |-> includeQueryPlanInResponse],
                report |-> report,
                reportAtEntry |-> report,
                i |-> 0,
                key |-> 0,
                selector |-> Nil,
                registered |-> <<>>,
                probed |-> <<>>,
                pruned |-> 0,
                beforePruning |-> <<>>,
                plan |-> Nil]
    /\ p' = [p EXCEPT !.planningVisitor.includeQueryPlans = includeQueryPlanInResponse]
    /\ pc' = "selectOperation"
    /\ passes' = 0
    /\ ran' = {}
    /\ UNCHANGED <<env, done, newConfig, newErr>>
    /\ UNCHANGED <<filterVars, handler, schema>>

-----------------------------------------------------------------------------
(* Planner.selectOperation *)

\* strings.TrimSpace
RECURSIVE TrimLeft(_)
TrimLeft(str) == IF str # <<>> /\ Head(str) = Space THEN TrimLeft(Tail(str)) ELSE str
RECURSIVE TrimRight(_)
TrimRight(str) ==
    IF str # <<>> /\ str[Len(str)] = Space THEN TrimRight(SubSeq(str, 1, Len(str) - 1)) ELSE str
TrimSpace(str) == TrimRight(TrimLeft(str))

NumOfOperationDefinitions(operation) == Len(operation.operationDefinitions)
OperationDefinitionNameString(operation, ref) == operation.operationDefinitions[ref + 1]
OperationNameExists(operation, name) ==
    \E n \in 1..Len(operation.operationDefinitions) : operation.operationDefinitions[n] = name

\* variant: with one operation the given name is not looked at
selectOperation_SeveralOnly(planner, operation, operationName, report) ==
    LET numOfOperations == NumOfOperationDefinitions(operation)
        trimmed == TrimSpace(operationName)
        name == IF numOfOperations = 1
                THEN OperationDefinitionNameString(operation, 0)
                ELSE trimmed
    IN IF Len(trimmed) = 0 /\ numOfOperations > 1
       THEN [planner |-> planner,
             report |-> AddExternalError(report, "ErrRequiredOperationNameIsMissing")]
       ELSE IF ~OperationNameExists(operation, name)
       THEN [planner |-> planner,
             report |-> AddExternalError(report, "ErrOperationWithProvidedOperationNameNotFound")]
       ELSE [planner |-> [planner EXCEPT !.configurationVisitor.operationName = name,
                                         !.planningVisitor.OperationName = name],
             report |-> report]

\* variant: the name is not trimmed
selectOperation_NoTrim(planner, operation, operationName, report) ==
    LET numOfOperations == NumOfOperationDefinitions(operation)
        name == IF Len(operationName) = 0 /\ numOfOperations = 1
                THEN OperationDefinitionNameString(operation, 0)
                ELSE operationName
    IN IF Len(operationName) = 0 /\ numOfOperations > 1
       THEN [planner |-> planner,
             report |-> AddExternalError(report, "ErrRequiredOperationNameIsMissing")]
       ELSE IF ~OperationNameExists(operation, name)
       THEN [planner |-> planner,
             report |-> AddExternalError(report, "ErrOperationWithProvidedOperationNameNotFound")]
       ELSE [planner |-> [planner EXCEPT !.configurationVisitor.operationName = name,
                                         !.planningVisitor.OperationName = name],
             report |-> report]

\* the planner and the report as selectOperation leaves them
selectOperation(planner, operation, operationName, report) ==
    LET numOfOperations == NumOfOperationDefinitions(operation)
        trimmed == TrimSpace(operationName)
        name == IF Len(trimmed) = 0 /\ numOfOperations = 1
                THEN OperationDefinitionNameString(operation, 0)
                ELSE trimmed
    IN IF Len(trimmed) = 0 /\ numOfOperations > 1
       THEN [planner |-> planner,
             report |-> AddExternalError(report, "ErrRequiredOperationNameIsMissing")]
       ELSE IF ~OperationNameExists(operation, name)
       THEN [planner |-> planner,
             report |-> AddExternalError(report, "ErrOperationWithProvidedOperationNameNotFound")]
       ELSE [planner |-> [planner EXCEPT !.configurationVisitor.operationName = name,
                                         !.planningVisitor.OperationName = name],
             report |-> report]

PlanSelectOperation ==
    /\ pc = "selectOperation"
    /\ LET r == selectOperation(p, call.operation, call.operationName, call.report)
       IN /\ p' = r.planner
          /\ call' = [call EXCEPT !.report = r.report]
          /\ pc' = AfterStage(r.report, "prepareOperation")
    /\ ran' = ran \cup {"selectOperation"}
    /\ UNCHANGED <<env, done, newConfig, newErr, passes>>
    /\ UNCHANGED <<filterVars, handler, schema>>

-----------------------------------------------------------------------------
(* Planner.prepareOperation: the normalization walk; it may report an error *)

PlanPrepareOperation(ok) ==
    /\ pc = "prepareOperation"
    /\ LET r == IF ok THEN call.report ELSE AddExternalError(call.report, "normalization")
       IN /\ call' = [call EXCEPT !.report = r]
          /\ pc' = AfterStage(r, "findPlanningPaths")
    /\ ran' = ran \cup {"prepareOperation"}
    /\ UNCHANGED <<env, done, newConfig, newErr, p, passes>>
    /\ UNCHANGED <<filterVars, handler, schema>>

-----------------------------------------------------------------------------
(* The collaborators of findPlanningPaths that live outside this file *)

\* the id of the first of the data sources that has the node, "" when none has it
SuggestedSource(dataSources, field) ==
    LET hits == { i \in 1..Len(dataSources) :
                    \/ HasRootNode(dataSources[i], field[1], field[2])
                    \/ HasChildNode(dataSources[i], field[1], field[2]) }
    IN IF hits = {} THEN ""
       ELSE dataSources[CHOOSE i \in hits : \A j \in hits : i <= j].id

\* the node suggestion of one field: a prior suggestion whose data source is
\* still selected is kept, then a hint is followed, then the first source is taken
SuggestionFor(field, filtered, existingNodes, hints) ==
    LET ids == { filtered[i].id : i \in 1..Len(filtered) }
        kept == { n \in existingNodes : n.field = field /\ n.dataSourceId \in ids }
        hinted == { h \in hints : h.field = field /\ h.dataSourceId \in ids }
    IN IF kept # {} THEN CHOOSE n \in kept : TRUE
       ELSE IF hinted # {} THEN CHOOSE h \in hinted : TRUE
       ELSE [field |-> field, dataSourceId |-> SuggestedSource(filtered, field)]

\* what dsFilter makes of the selector's result r: the selected data sources
\* with a suggestion for every field, or the error in the report
SuggestionsOf(r, operation, report, existingNodes, hints) ==
    IF r.err = NoErr
    THEN [dataSources |-> r.filtered,
          nodeSuggestions |->
             { SuggestionFor(operation.fields[n], r.filtered, existingNodes, hints) :
                 n \in 1..Len(operation.fields) },
          report |-> report]
    ELSE [dataSources |-> <<>>, nodeSuggestions |-> {},
          report |-> AddExternalError(report, r.err.kind)]

\* dsFilter.FilterDataSources(dataSources, existingNodes, hints...): the selector
\* run on the operation as it stands, seeded with the prior suggestions and the
\* hints; an unresolvable field is reported, not returned
DataSourceFilter(operation, report, dataSources, existingNodes, hints) ==
    SuggestionsOf(FilterDataSources(operation.fields, HasErrors(report), dataSources),
                  operation, report, existingNodes, hints)

\* configurationVisitor.shouldRevisit
shouldRevisit(cv) ==
    cv.hasNewFields \/ cv.missingPathTracker # {} \/ cv.fieldsWaitingForDependency

\* what one pass of the configuration visitor can leave behind: an error in the
\* report, new fields, fields whose path is missing, fields waiting for a
\* dependency (waiting fields and two missing paths are drawn on their own)
PassOutcomes ==
    { o \in [err : BOOLEAN, hasNewFields : BOOLEAN, missing : MissingFieldSets, waiting : BOOLEAN] :
        /\ o.waiting => (~o.hasNewFields /\ o.missing = {})
        /\ Cardinality(o.missing) > 1 => (~o.err /\ ~o.hasNewFields) }

\* the operation after a pass that added the required key field (kept once)
WithRequiredField(operation) ==
    IF \E n \in 1..Len(operation.fields) : operation.fields[n] = RequiredField
    THEN operation
    ELSE [operation EXCEPT !.fields = Append(@, RequiredField),
                            !.paths = Append(@, operation.keyPath)]

\* the hint a pass leaves with a new required field: the first configured data
\* source that owns it as a root node
KeyHints(dataSources) ==
    LET owners == { i \in 1..Len(dataSources) :
                      HasRootNode(dataSources[i], RequiredField[1], RequiredField[2]) }
    IN IF owners = {} THEN {}
       ELSE { [field |-> RequiredField,
               dataSourceId |-> dataSources[CHOOSE i \in owners : \A j \in owners : i <= j].id] }

\* a pass can leave a field missing only if the operation has the field
PassPossible(operation, o) ==
    LET after == IF o.hasNewFields THEN WithRequiredField(operation) ELSE operation
    IN o.missing \subseteq { after.fields[n] : n \in 1..Len(after.fields) }

\* the paths one pass plans on the planner of data source ds: the fragment paths
\* opened because ds has a root node of the fragment's type, then the path of
\* every field suggested for ds whose path is not missing
PathsOn(ds, operation, nodeSuggestions, missing) ==
    LET opened == SelectSeq(operation.fragments,
                      LAMBDA fr : \E node \in ds.root : node[1] = fr.typeName)
        mine == { n \in 1..Len(operation.fields) :
                    /\ [field |-> operation.fields[n], dataSourceId |-> ds.id] \in nodeSuggestions
                    /\ operation.fields[n] \notin missing }
        fieldPaths == SelectSeq([n \in 1..Len(operation.fields) |->
                                    IF n \in mine THEN operation.paths[n] ELSE <<>>],
                                LAMBDA path : path # <<>>)
    IN [k \in 1..Len(opened) |-> [path |-> opened[k].path, pathType |-> "fragment"]]
       \o [k \in 1..Len(fieldPaths) |-> [path |-> fieldPaths[k], pathType |-> "field"]]

\* base with the paths of more that base does not have yet, in order
RECURSIVE AddPaths(_, _)
AddPaths(base, more) ==
    IF more = <<>> THEN base
    ELSE IF \E k \in 1..Len(base) : base[k] = Head(more)
         THEN AddPaths(base, Tail(more))
         ELSE AddPaths(Append(base, Head(more)), Tail(more))

\* the planners after a pass: the planners so far keep their place and get the
\* paths planned on their data source; a selected data source with planned
\* paths and no planner yet gets a new planner
PlannersAfterPass(planners, dataSources, operation, nodeSuggestions, missing) ==
    LET planned(id) ==
            LET at == { i \in 1..Len(dataSources) : dataSources[i].id = id }
            IN IF at = {} THEN <<>>
               ELSE PathsOn(dataSources[CHOOSE i \in at : TRUE], operation, nodeSuggestions, missing)
        kept == [k \in 1..Len(planners) |->
                    [planners[k] EXCEPT !.paths = AddPaths(@, planned(planners[k].dataSourceId))]]
        fresh == SelectSeq(dataSources,
                    LAMBDA ds : /\ \A k \in 1..Len(planners) : planners[k].dataSourceId # ds.id
                                /\ planned(ds.id) # <<>>)
    IN kept \o [k \in 1..Len(fresh) |->
                    [dataSourceId |-> fresh[k].id, paths |-> planned(fresh[k].id)]]

\* configurationWalker.Walk(operation, definition, report) with outcome o: a pass
\* that is not a secondary run starts from no planners and no hints
ConfigurationWalk(planner, operation, report, o) ==
    LET cv == planner.configurationVisitor
        base == IF cv.secondaryRun THEN cv.planners ELSE <<>>
        hints == IF cv.secondaryRun THEN cv.nodeSuggestionHints ELSE {}
        after == IF o.hasNewFields THEN WithRequiredField(operation) ELSE operation
    IN [planner |->
        [planner EXCEPT
            !.configurationVisitor.hasNewFields = o.hasNewFields,
            !.configurationVisitor.missingPathTracker =
                { after.paths[n] : n \in { m \in 1..Len(after.fields) : after.fields[m] \in o.missing } },
            !.configurationVisitor.fieldsWaitingForDependency = o.waiting,
            !.configurationVisitor.nodeSuggestionHints =
                IF o.hasNewFields THEN hints \cup KeyHints(planner.config.DataSources) ELSE hints,
            !.configurationVisitor.planners =
                PlannersAfterPass(base, cv.dataSources, operation, cv.nodeSuggestions, o.missing)],
     operation |-> after,
     report |-> IF o.err THEN AddExternalError(report, "configuration walk") ELSE report]

\* plannerConfiguration.RemoveLeafFragmentPaths: the fragment paths that are a
\* prefix of no other path of the planner are removed
IsPrefixOf(path, other) ==
    Len(path) < Len(other) /\ SubSeq(other, 1, Len(path)) = path
IsLeafFragmentPath(planner, k) ==
    /\ planner.paths[k].pathType = "fragment"
    /\ ~\E j \in 1..Len(planner.paths) : IsPrefixOf(planner.paths[k].path, planner.paths[j].path)
RemoveLeafFragmentPaths(planner) ==
    LET leaves == { k \in 1..Len(planner.paths) : IsLeafFragmentPath(planner, k) }
        marked == [k \in 1..Len(planner.paths) |->
                     IF k \in leaves THEN Nil ELSE planner.paths[k]]
    IN [planner |-> [planner EXCEPT !.paths = SelectSeq(marked, LAMBDA e : e # Nil)],
        hasRemovals |-> leaves # {}]

\* the plan the planning visitor builds: one fetch per planner, in order, over
\* the field paths the planner holds
PlanOf(planners) ==
    [fetches |-> [k \in 1..Len(planners) |->
                    [dataSourceId |-> planners[k].dataSourceId, paths |-> planners[k].paths]]]

-----------------------------------------------------------------------------
(* Planner.findPlanningPaths *)

MaxIterations == 100

\* variant: the loop looks at hasNewFields only
LoopContinues_NewFieldsOnly(cv) == cv.hasNewFields

\* variant: the loop does not look at the missing path tracker
LoopContinues_MissingIgnored(cv) == cv.hasNewFields \/ cv.fieldsWaitingForDependency

\* `for p.configurationVisitor.shouldRevisit()`
LoopContinues(cv) == shouldRevisit(cv)

\* variant: the ceiling is one too high
CeilingExceeded_Late(n) == n > MaxIterations + 1

\* `if i > 100`
CeilingExceeded(n) == n > MaxIterations

\* lines 528-548: the initial suggestions and used data sources; the selector is
\* given nil for the existing nodes and no hints
PlanFindPlanningPaths ==
    /\ pc = "findPlanningPaths"
    /\ \E r \in {DataSourceFilter(call.operation, call.report, p.config.DataSources, {}, {})} :
          /\ p' = [p EXCEPT !.configurationVisitor.dataSources = r.dataSources,
                            !.configurationVisitor.nodeSuggestions = r.nodeSuggestions]
          /\ call' = [call EXCEPT !.report = r.report,
                                  !.selector = [existingNodes |-> {}, hints |-> {}]]
          /\ pc' = AfterStage(r.report, "initialWalk")
    /\ ran' = ran \cup {"findPlanningPaths"}
    /\ UNCHANGED <<env, done, newConfig, newErr, passes>>
    /\ UNCHANGED <<filterVars, handler, schema>>

\* variant: the first pass runs with the flag as it was left
PlanInitialWalk_FlagKept(o) ==
    /\ pc = "initialWalk"
    /\ PassPossible(call.operation, o)
    /\ LET r == ConfigurationWalk(p, call.operation, call.report, o)
       IN /\ p' = r.planner
          /\ call' = [call EXCEPT !.operation = r.operation, !.report = r.report,
                                  !.i = IF HasErrors(r.report) THEN @ ELSE 1,
                                  !.selector = Nil]
          /\ pc' = AfterStage(r.report, "revisit")
    /\ passes' = passes + 1
    /\ UNCHANGED <<env, done, newConfig, newErr, ran>>
    /\ UNCHANGED <<filterVars, handler, schema>>

\* lines 554-571: the first pass
PlanInitialWalk(o) ==
    /\ pc = "initialWalk"
    /\ PassPossible(call.operation, o)
    /\ LET first == [p EXCEPT !.configurationVisitor.secondaryRun = FALSE]
           r == ConfigurationWalk(first, call.operation, call.report, o)
       IN /\ p' = r.planner
          /\ call' = [call EXCEPT !.operation = r.operation, !.report = r.report,
                                  !.i = IF HasErrors(r.report) THEN @ ELSE 1,
                                  !.selector = Nil]
          /\ pc' = AfterStage(r.report, "revisit")
    /\ passes' = passes + 1
    /\ UNCHANGED <<env, done, newConfig, newErr, ran>>
    /\ UNCHANGED <<filterVars, handler, schema>>

\* variant: the suggestions are refreshed before every secondary pass
RefreshSuggestions_Always(cv) == TRUE

\* `if p.configurationVisitor.hasNewFields`
RefreshSuggestions(cv) == cv.hasNewFields

\* lines 573-584: the loop is entered; the suggestions are refreshed on new fields
PlanRevisit ==
    /\ pc = "revisit"
    /\ LoopContinues(p.configurationVisitor)
    /\ LET second == [p EXCEPT !.configurationVisitor.secondaryRun = TRUE]
           cv == p.configurationVisitor
       IN IF RefreshSuggestions(cv)
          THEN \E r \in {DataSourceFilter(call.operation, call.report, p.config.DataSources,
                                          cv.nodeSuggestions, cv.nodeSuggestionHints)} :
               /\ p' = [second EXCEPT !.configurationVisitor.dataSources = r.dataSources,
                                      !.configurationVisitor.nodeSuggestions = r.nodeSuggestions]
               /\ call' = [call EXCEPT !.report = r.report,
                                       !.selector = [existingNodes |-> cv.nodeSuggestions,
                                                     hints |-> cv.nodeSuggestionHints]]
               /\ pc' = AfterStage(r.report, "secondaryWalk")
          ELSE /\ p' = second
               /\ call' = call
               /\ pc' = "secondaryWalk"
    /\ UNCHANGED <<env, done, newConfig, newErr, passes, ran>>
    /\ UNCHANGED <<filterVars, handler, schema>>

\* variant: the loop over the tracker stops after its first path
Orderings_FirstOnly(set) ==
    { order \in SeqsUpTo(set, 1) : set # {} => Len(order) = 1 }

\* the orders in which `for path := range missingPathTracker` can yield the paths
Orderings(set) ==
    { order \in SeqsUpTo(set, Cardinality(set)) :
        { order[n] : n \in 1..Len(order) } = set }

\* variant: exceeding the ceiling is not reported
AfterIncrement_Silent(report, n, missingPaths) == report

\* the report after `i++; if i > 100 { ... AddInternalError ... }`
AfterIncrement(report, n, missingPaths) ==
    IF CeilingExceeded(n)
    THEN Append(report, [class |-> "internal", err |-> "bad datasource configuration",
                         missingPaths |-> missingPaths])
    ELSE report

\* lines 586-620: a secondary pass, the increment and the ceiling
PlanSecondaryWalk(o) ==
    /\ pc = "secondaryWalk"
    /\ PassPossible(call.operation, o)
    /\ LET r == ConfigurationWalk(p, call.operation, call.report, o)
           n == call.i + 1
       IN /\ p' = r.planner
          /\ IF HasErrors(r.report)
             THEN /\ call' = [call EXCEPT !.operation = r.operation, !.report = r.report,
                                          !.selector = Nil]
                  /\ pc' = "returned"
             ELSE \E missingPaths \in Orderings(r.planner.configurationVisitor.missingPathTracker) :
                  /\ call' = [call EXCEPT
                                !.operation = r.operation,
                                !.i = n,
                                !.report = AfterIncrement(r.report, n, missingPaths),
                                !.selector = Nil]
                  /\ pc' = AfterStage(AfterIncrement(r.report, n, missingPaths), "revisit")
    /\ passes' = passes + 1
    /\ UNCHANGED <<env, done, newConfig, newErr, ran>>
    /\ UNCHANGED <<filterVars, handler, schema>>

\* variant: only the first planner is pruned
removeUnnecessaryFragmentPaths_FirstOnly(planners) ==
    [planners |-> [k \in 1..Len(planners) |->
                     IF k = 1 THEN RemoveLeafFragmentPaths(planners[k]).planner
                     ELSE planners[k]],
     hasRemovedPaths |-> \E k \in 1..Len(planners) :
                            k = 1 /\ RemoveLeafFragmentPaths(planners[k]).hasRemovals]

\* lines 631-643: every planner is pruned; one removal makes the result true
removeUnnecessaryFragmentPaths(planners) ==
    [planners |-> [k \in 1..Len(planners) |-> RemoveLeafFragmentPaths(planners[k]).planner],
     hasRemovedPaths |-> \E k \in 1..Len(planners) : RemoveLeafFragmentPaths(planners[k]).hasRemovals]

\* lines 623-629 and Plan's lines 465-486: the loop ends, the fragment paths are
\* pruned and the planning visitor is configured
PlanRemoveUnnecessaryFragmentPaths ==
    /\ pc = "revisit"
    /\ ~LoopContinues(p.configurationVisitor)
    /\ LET pruned == removeUnnecessaryFragmentPaths(p.configurationVisitor.planners)
       IN /\ p' = [p EXCEPT !.configurationVisitor.planners = pruned.planners,
                            !.planningVisitor.planners = pruned.planners,
                            !.planningVisitor.Config = p.config]
          /\ call' = [call EXCEPT !.key = 0,
                                  !.pruned = @ + 1,
                                  !.beforePruning = p.configurationVisitor.planners]
          /\ pc' = IF Len(pruned.planners) = 0 THEN "planningWalk" ELSE "register"
          /\ ran' = ran \cup {"removeUnnecessaryFragmentPaths"}
                        \cup (IF Len(pruned.planners) = 0 THEN {"register"} ELSE {})
    /\ UNCHANGED <<env, done, newConfig, newErr, passes>>
    /\ UNCHANGED <<filterVars, handler, schema>>

-----------------------------------------------------------------------------
(* Planner.Plan: planner registration and the planning walk *)

\* the optional interfaces the Planner() of a data source's planner implements:
\* the planner of ds1 offers all three, the planner of ds2 the identifier only
Capabilities(dataSourceId) ==
    IF dataSourceId = "ds1"
    THEN {"SubgraphRequestMinifier", "QueryPlanProvider", "VisitorIdentifier"}
    ELSE {"VisitorIdentifier"}

\* the Planner() of a planner nothing was enabled on; id -1: SetID was not called
NewDataSourcePlanner == [minifier |-> FALSE, includeQueryPlan |-> FALSE, id |-> -1]

\* variant: the minifier is enabled whenever it is offered
Probe_MinifyOffered(planner, capabilities, key, config, opts) ==
    [minifier |-> planner.minifier \/ "SubgraphRequestMinifier" \in capabilities,
     includeQueryPlan |-> planner.includeQueryPlan
                            \/ (opts.includeQueryPlanInResponse /\ "QueryPlanProvider" \in capabilities),
     id |-> IF "VisitorIdentifier" \in capabilities THEN key ELSE planner.id]

\* lines 489-501: the type assertions on planners[key].Planner() and the calls
\* EnableSubgraphRequestMinifier, IncludeQueryPlanInFetchConfiguration, SetID
Probe(planner, capabilities, key, config, opts) ==
    [minifier |-> planner.minifier
                    \/ (config.MinifySubgraphOperations /\ "SubgraphRequestMinifier" \in capabilities),
     includeQueryPlan |-> planner.includeQueryPlan
                            \/ (opts.includeQueryPlanInResponse /\ "QueryPlanProvider" \in capabilities),
     id |-> IF "VisitorIdentifier" \in capabilities THEN key ELSE planner.id]

\* the Planner() of planners[key] as the loop turn leaves it and Register finds it
Probed ==
    Probe(NewDataSourcePlanner, Capabilities(p.planningVisitor.planners[call.key + 1].dataSourceId),
          call.key, p.config, call.opts)

\* variant: a failed Register is reported and the loop goes on
PlanRegister_Continue(ok) ==
    /\ pc = "register"
    /\ call.key < Len(p.planningVisitor.planners)
    /\ call' = [call EXCEPT !.key = @ + 1,
                            !.registered = Append(@, call.key),
                            !.probed = Append(@, Probed),
                            !.report = IF ok THEN @ ELSE AddInternalError(@, "register")]
    /\ pc' = IF call.key + 1 < Len(p.planningVisitor.planners)
             THEN "register" ELSE "planningWalk"
    /\ ran' = ran \cup {"register"}
    /\ UNCHANGED <<env, done, newConfig, newErr, p, passes>>
    /\ UNCHANGED <<filterVars, handler, schema>>

\* lines 488-516, one turn of the loop: the Planner() of planners[key] is probed
\* for its optional interfaces, then planners[key].Register is called and may fail
PlanRegister(ok) ==
    /\ pc = "register"
    /\ call.key < Len(p.planningVisitor.planners)
    /\ IF ok
       THEN /\ call' = [call EXCEPT !.key = @ + 1,
                                    !.registered = Append(@, call.key),
                                    !.probed = Append(@, Probed)]
            /\ pc' = IF call.key + 1 < Len(p.planningVisitor.planners)
                     THEN "register" ELSE "planningWalk"
       ELSE /\ call' = [call EXCEPT !.report = AddInternalError(@, "register"),
                                    !.registered = Append(@, call.key),
                                    !.probed = Append(@, Probed)]
            /\ pc' = "returned"
    /\ ran' = ran \cup {"register"}
    /\ UNCHANGED <<env, done, newConfig, newErr, p, passes>>
    /\ UNCHANGED <<filterVars, handler, schema>>

\* variant: the plan is returned whatever the report holds
PlanResult_Built(report, built) == built

\* lines 520-525: what Plan returns after the planning walk
PlanResult(report, built) == IF HasErrors(report) THEN Nil ELSE built

PlanPlanningWalk(ok) ==
    /\ pc = "planningWalk"
    /\ LET built == PlanOf(p.planningVisitor.planners)
           r == IF ok THEN call.report ELSE AddExternalError(call.report, "planning walk")
       IN /\ p' = [p EXCEPT !.planningVisitor.plan = built]
          /\ call' = [call EXCEPT !.report = r, !.plan = PlanResult(r, built)]
    /\ pc' = "returned"
    /\ ran' = ran \cup {"planningWalk"}
    /\ UNCHANGED <<env, done, newConfig, newErr, passes>>
    /\ UNCHANGED <<filterVars, handler, schema>>

-----------------------------------------------------------------------------
(* Spec: one Planner, from NewPlanner through a Plan call *)

Init == FilterIdle /\ PlannerIdle /\ handler = Nil /\ schema = Nil

Next ==
    \/ \E config \in Configurations : NewPlanner(config)
    \/ \E operation \in Documents, operationName \in OperationNames, report \in Reports :
          \E include \in IncludeQueryPlan(operationName) :
            Plan(operation, operationName, report, include)
    \/ PlanSelectOperation
    \/ \E ok \in BOOLEAN : PlanPrepareOperation(ok)
    \/ PlanFindPlanningPaths
    \/ \E o \in PassOutcomes : PlanInitialWalk(o)
    \/ PlanRevisit
    \/ \E o \in PassOutcomes : PlanSecondaryWalk(o)
    \/ PlanRemoveUnnecessaryFragmentPaths
    \/ \E ok \in BOOLEAN : PlanRegister(ok)
    \/ \E ok \in BOOLEAN : PlanPlanningWalk(ok)

Spec == Init /\ [][Next]_vars

-----------------------------------------------------------------------------
(* ReuseSpec: one Planner used for Plan calls made one after the other. The    *)
(* caller repeats its call with the same arguments; what the collaborators     *)
(* answer (normalization, the configuration passes, Register, the planning     *)
(* walk) is a function of their inputs, fixed by env.                          *)

MaxCalls == 2   \* Plan calls made on the Planner

\* how the configuration passes go: the first pass settles everything; a pass
\* adds the key field and the next settles; after the key field the paths stay
\* missing; the first pass reports an error. And the stage that fails, if any.
Environments ==
    { [script |-> "settled", failing |-> f] :
        f \in {"none", "prepareOperation", "register", "planningWalk"} }
    \cup { [script |-> s, failing |-> "none"] : s \in {"key", "stuck", "broken"} }

Quiet == [err |-> FALSE, hasNewFields |-> FALSE, missing |-> {}, waiting |-> FALSE]

\* the outcome of pass n over the operation in environment e
EnvOutcome(e, n, operation) ==
    LET has(f) == \E k \in 1..Len(operation.fields) : operation.fields[k] = f
    IN CASE e.script = "settled" -> Quiet
         [] e.script = "broken" -> [Quiet EXCEPT !.err = TRUE]
         [] e.script = "key" -> IF n = 1 THEN [Quiet EXCEPT !.hasNewFields = TRUE] ELSE Quiet
         [] e.script = "stuck" ->
                IF n = 1 THEN [Quiet EXCEPT !.hasNewFields = TRUE]
                ELSE IF has(<<"A", "x">>) /\ has(RequiredField)
                     THEN [Quiet EXCEPT !.missing = { <<"A", "x">>, RequiredField }]
                ELSE IF has(<<"A", "x">>) THEN [Quiet EXCEPT !.missing = { <<"A", "x">> }]
                ELSE [Quiet EXCEPT !.waiting = TRUE]

ReuseInit ==
    /\ FilterIdle
    /\ newConfig = Nil
    /\ newErr = NoErr
    /\ p = Nil
    /\ pc = "new"
    /\ call = Nil
    /\ passes = 0
    /\ ran = {}
    /\ env \in Environments
    /\ done = <<>>
    /\ handler = Nil
    /\ schema = Nil

\* the caller takes the result of a Plan call; the Planner is free for the next
PlanReturn ==
    /\ pc = "returned"
    /\ Len(done) + 1 < MaxCalls
    /\ done' = Append(done, call)
    /\ pc' = "idle"
    /\ UNCHANGED <<env, newConfig, newErr, p, call, passes, ran>>
    /\ UNCHANGED <<filterVars, handler, schema>>

\* the arguments of the next Plan call: any for the first call, then the same again
PlanArguments ==
    IF done = <<>>
    THEN { [operation |-> operation, operationName |-> operationName,
            report |-> report, include |-> include] :
              operation \in Documents, operationName \in OperationNames,
              report \in Reports, include \in BOOLEAN }
    ELSE { [operation |-> done[1].document, operationName |-> done[1].operationName,
            report |-> done[1].reportAtEntry,
            include |-> done[1].opts.includeQueryPlanInResponse] }

ReuseNext ==
    \/ \E config \in Configurations : NewPlanner(config)
    \/ \E a \in PlanArguments :
          /\ a.include \in IncludeQueryPlan(a.operationName)
          /\ Plan(a.operation, a.operationName, a.report, a.include)
    \/ PlanSelectOperation
    \/ pc = "prepareOperation" /\ PlanPrepareOperation(env.failing # "prepareOperation")
    \/ PlanFindPlanningPaths
    \/ pc = "initialWalk" /\ PlanInitialWalk(EnvOutcome(env, 1, call.operation))
    \/ PlanRevisit
    \/ pc = "secondaryWalk" /\ PlanSecondaryWalk(EnvOutcome(env, passes + 1, call.operation))
    \/ PlanRemoveUnnecessaryFragmentPaths
    \/ pc = "register" /\ PlanRegister(env.failing # "register")
    \/ pc = "planningWalk" /\ PlanPlanningWalk(env.failing # "planningWalk")
    \/ PlanReturn

ReuseSpec == ReuseInit /\ [][ReuseNext]_vars

-----------------------------------------------------------------------------
(* A Planner that is given other configurations between its Plan calls *)

\* the configurations of NewPlanner and SetConfig: one or two data sources,
\* two with the same id among them, with no field configurations and resolve
\* field positions, or with a field configuration for Query.a and without them
ChangedConfigurations ==
    { [DataSources |-> l, MinifySubgraphOperations |-> FALSE,
       Fields |-> f.Fields, DisableResolveFieldPositions |-> f.DisableResolveFieldPositions,
       Debug |-> FALSE] :
        l \in { <<DataSourceS1>>, <<DataSourceS1, DataSourceS2>>, <<DataSourceS1, DataSourceS1>> },
        f \in { [Fields |-> <<>>, DisableResolveFieldPositions |-> FALSE],
                [Fields |-> << <<"Query", "a">> >>, DisableResolveFieldPositions |-> TRUE] } }

\* lines 420-422, called while no Plan call runs
SetConfig(config) ==
    /\ pc = "idle"
    /\ p' = [p EXCEPT !.config = config]
    /\ UNCHANGED <<env, done, newConfig, newErr, pc, call, passes, ran>>
    /\ UNCHANGED <<filterVars, handler, schema>>

\* lines 424-426
SetDebugConfig(config) ==
    /\ pc = "idle"
    /\ p' = [p EXCEPT !.config.Debug = config]
    /\ UNCHANGED <<env, done, newConfig, newErr, pc, call, passes, ran>>
    /\ UNCHANGED <<filterVars, handler, schema>>

\* the arguments of the next Plan call: any for the first call, then the same
\* again with or without the option
ChangedArguments ==
    { [a EXCEPT !.include = include] : a \in PlanArguments, include \in BOOLEAN }

ConfigNext ==
    \/ \E config \in ChangedConfigurations : NewPlanner(config)
    \/ \E config \in ChangedConfigurations : SetConfig(config)
    \/ \E config \in BOOLEAN : SetDebugConfig(config)
    \/ \E a \in ChangedArguments :
          /\ a.include \in IncludeQueryPlan(a.operationName)
          /\ Plan(a.operation, a.operationName, a.report, a.include)
    \/ PlanSelectOperation
    \/ pc = "prepareOperation" /\ PlanPrepareOperation(env.failing # "prepareOperation")
    \/ PlanFindPlanningPaths
    \/ pc = "initialWalk" /\ PlanInitialWalk(EnvOutcome(env, 1, call.operation))
    \/ PlanRevisit
    \/ pc = "secondaryWalk" /\ PlanSecondaryWalk(EnvOutcome(env, passes + 1, call.operation))
    \/ PlanRemoveUnnecessaryFragmentPaths
    \/ pc = "register" /\ PlanRegister(env.failing # "register")
    \/ pc = "planningWalk" /\ PlanPlanningWalk(env.failing # "planningWalk")
    \/ PlanReturn

ConfigSpec == ReuseInit /\ [][ConfigNext]_vars

-----------------------------------------------------------------------------
(* subscription.Handler and the mock client its tests drive it with
   (handler_test.go).  Handle and handleInit are modelled after the
   behaviour the tests pin down.                                          *)

MaxMessages == 2

MessageTypeConnectionInit == "connection_init"
MessageTypeConnectionAck == "connection_ack"
MessageTypeConnectionError == "connection_error"
MessageTypeConnectionTerminate == "connection_terminate"
MessageTypeStart == "start"
MessageTypeStop == "stop"
MessageTypeData == "data"
MessageTypeError == "error"
MessageTypeComplete == "complete"

CouldNotRead == "could not read message from client"
FailedToAccept == "failed to accept the websocket connection"
SubscriberIdExists == "subscriber id already exists"

\* Authorization() of an init payload; "" for a message without payload
InitPayloads == {"", "111", "123"}

\* values the tests give initPayloadAuthorization
Authorizations == {"", "123"}

\* ids the tests give start and stop messages
Ids == {"1", "2"}

\* the requests of subscriptiontesting the tests start
Requests ==
    {"MutationSendMessage", "InvalidOperation",
     "SubscriptionLiveMessages", "InvalidSubscriptionLiveMessages"}

\* executor.OperationType() == ast.OperationTypeSubscription
IsSubscription(request) ==
    request \in {"SubscriptionLiveMessages", "InvalidSubscriptionLiveMessages"}

\* the error executing the request ends with, "" for a request that executes
ExecutionError(request) ==
    IF request = "InvalidOperation"
    THEN "Cannot query field serverName on type Query."
    ELSE IF request = "InvalidSubscriptionLiveMessages"
    THEN "differing fields for objectName 'a' on (potentially) same type"
    ELSE ""

\* websocketHook.hook: the operations it returns its error for; none when
\* the hook is nil or returns nil
Hooks ==
    {[rejects |-> R, err |-> "error_on_operation"] :
        R \in {{}, Requests,
               {r \in Requests : IsSubscription(r)},
               {r \in Requests : ~IsSubscription(r)}}}

OnBeforeStart_Swallowed(hook, operation) == [called |-> TRUE, err |-> ""]

\* websocketHook.OnBeforeStart: its error, "" for nil
OnBeforeStart(hook, operation) ==
    [called |-> TRUE, err |-> IF operation \in hook.rejects THEN hook.err ELSE ""]

\* what the mock client can be told to send: the message and whether
\* reading it fails (withError / withoutError)
ClientMessages ==
    {[type |-> MessageTypeConnectionInit, id |-> "", payload |-> a, err |-> e] :
        a \in InitPayloads, e \in BOOLEAN}
    \cup {[type |-> MessageTypeConnectionTerminate, id |-> "", payload |-> "", err |-> e] :
        e \in BOOLEAN}
    \cup {[type |-> MessageTypeStart, id |-> id, payload |-> request, err |-> FALSE] :
        id \in Ids, request \in Requests}
    \cup {[type |-> MessageTypeStop, id |-> id, payload |-> "", err |-> FALSE] :
        id \in Ids}

\* the two ways the tests construct a handler: without an init function,
\* or with the one that compares Authorization
InitFuncs ==
    {[set |-> FALSE, initPayloadAuthorization |-> ""]}
    \cup {[set |-> TRUE, initPayloadAuthorization |-> a] : a \in Authorizations}

\* the init function of the connection_init tests: its error, "" for nil
InitFunc(initPayloadAuthorization, initPayload) ==
    IF initPayloadAuthorization = "" THEN ""
    ELSE IF initPayloadAuthorization # initPayload THEN "unknown user"
    ELSE ""

ServerMessage(type, payload) == [id |-> "", type |-> type, payload |-> payload]

\* a message about the operation started under id
OperationMessage(id, type, payload) == [id |-> id, type |-> type, payload |-> payload]

handleInit_AckFirst(initFunc, payload) ==
    LET err == IF initFunc.set
               THEN InitFunc(initFunc.initPayloadAuthorization, payload) ELSE ""
    IN  [err |-> err, written |-> <<ServerMessage(MessageTypeConnectionAck, "")>>]

\* handleInit: asks the init function, if there is one, and acknowledges
\* unless it returned an error
handleInit(initFunc, payload) ==
    LET err == IF initFunc.set
               THEN InitFunc(initFunc.initPayloadAuthorization, payload) ELSE ""
    IN  [err |-> err,
         written |-> IF err = "" THEN <<ServerMessage(MessageTypeConnectionAck, "")>>
                     ELSE <<>>]

\* handleStart for the k-th message read: the before-start hook is asked
\* first; a subscription is registered under its id and started, any other
\* operation is executed once; both run in a goroutine of their own
handleStart(hd, k, id, request) ==
    LET hook == OnBeforeStart(hd.hook, request)
        called == IF hook.called THEN hd.hookCalled \cup {k} ELSE hd.hookCalled
        task == [k |-> k, id |-> id, request |-> request]
    IN  IF hook.err # ""
        THEN [written |-> <<OperationMessage(id, MessageTypeError, hook.err)>>,
              subscriptions |-> hd.subscriptions, tasks |-> hd.tasks,
              hookCalled |-> called]
        ELSE IF ~IsSubscription(request)
        THEN [written |-> <<>>, subscriptions |-> hd.subscriptions,
              tasks |-> hd.tasks \cup {task}, hookCalled |-> called]
        ELSE IF id \in hd.subscriptions
        THEN [written |-> <<OperationMessage(id, MessageTypeError, SubscriberIdExists)>>,
              subscriptions |-> hd.subscriptions, tasks |-> hd.tasks,
              hookCalled |-> called]
        ELSE [written |-> <<>>, subscriptions |-> hd.subscriptions \cup {id},
              tasks |-> hd.tasks \cup {task}, hookCalled |-> called]

handleStop_ActiveOnly(hd, id) ==
    [written |-> IF id \in hd.subscriptions
                 THEN <<OperationMessage(id, MessageTypeComplete, "")>> ELSE <<>>,
     subscriptions |-> hd.subscriptions \ {id},
     tasks |-> {t \in hd.tasks : ~(IsSubscription(t.request) /\ t.id = id)}]

\* handleStop: the subscription under id, if any, is cancelled and the
\* client is told that id is complete
handleStop(hd, id) ==
    [written |-> <<OperationMessage(id, MessageTypeComplete, "")>>,
     subscriptions |-> hd.subscriptions \ {id},
     tasks |-> {t \in hd.tasks : ~(IsSubscription(t.request) /\ t.id = id)}]

Execute_DataOnly(t) ==
    IF ExecutionError(t.request) # ""
    THEN <<OperationMessage(t.id, MessageTypeError, ExecutionError(t.request))>>
    ELSE <<OperationMessage(t.id, MessageTypeData, t.request)>>

\* what the goroutine of task t writes: a one-shot operation its result and
\* complete, or its error; a subscription its error or the data of an event
Execute(t) ==
    IF ExecutionError(t.request) # ""
    THEN <<OperationMessage(t.id, MessageTypeError, ExecutionError(t.request))>>
    ELSE IF IsSubscription(t.request)
    THEN <<OperationMessage(t.id, MessageTypeData, t.request)>>
    ELSE <<OperationMessage(t.id, MessageTypeData, t.request),
           OperationMessage(t.id, MessageTypeComplete, "")>>

\* Handler.ActiveSubscriptions()
ActiveSubscriptions(hd) == Cardinality(hd.subscriptions)

handleConnectionTerminate_StaysConnected(hd) ==
    [connected |-> TRUE, return |-> TRUE]

\* handleConnectionTerminate: the client is disconnected, Handle returns
handleConnectionTerminate(hd) ==
    [connected |-> FALSE, return |-> TRUE]

\* one turn of the loop of Handle on m, the k-th message read: what is
\* written to the client, whether the client stays connected, whether
\* Handle returns, and the subscriptions and goroutines afterwards
HandleMessage(hd, m, k) ==
    LET same == [written |-> <<>>, connected |-> TRUE, return |-> FALSE,
                 subscriptions |-> hd.subscriptions, tasks |-> hd.tasks,
                 hookCalled |-> hd.hookCalled]
    IN  IF m.err
        THEN [same EXCEPT
                !.written = <<ServerMessage(MessageTypeConnectionError, CouldNotRead)>>]
        ELSE IF m.type = MessageTypeConnectionInit
        THEN \* a rejected connection is terminated and Handle returns
             [same EXCEPT
                !.written = IF handleInit(hd.initFunc, m.payload).err # ""
                            THEN handleInit(hd.initFunc, m.payload).written \o
                                 <<ServerMessage(MessageTypeConnectionTerminate,
                                                 FailedToAccept)>>
                            ELSE handleInit(hd.initFunc, m.payload).written,
                !.return = handleInit(hd.initFunc, m.payload).err # ""]
        ELSE IF m.type = MessageTypeStart
        THEN handleStart(hd, k, m.id, m.payload) @@ same
        ELSE IF m.type = MessageTypeStop
        THEN handleStop(hd, m.id) @@ same
        ELSE handleConnectionTerminate(hd) @@ same

\* NewHandlerWithInitFunc with a fresh, connected mock client and an
\* executor pool whose before-start hook returns hook
NewHandlerWithInitFunc(initFunc, hook) ==
    /\ handler = Nil
    /\ handler' = [initFunc |-> initFunc,
                   hook |-> hook,
                   hookCalled |-> {},
                   subscriptions |-> {},
                   tasks |-> {},
                   answers |-> <<>>,
                   connected |-> TRUE,
                   messageToServer |-> <<>>,
                   messagesFromServer |-> <<>>,
                   serverHasRead |-> FALSE,
                   ctxDone |-> FALSE,
                   pc |-> "setup",
                   handled |-> <<>>]
    /\ UNCHANGED <<filterVars, plannerVars, schema>>

\* the mock client's send
ClientSend(m) ==
    /\ handler # Nil
    /\ handler.pc = "setup"
    /\ Len(handler.messageToServer) < MaxMessages
    /\ handler' = [handler EXCEPT !.messageToServer = Append(@, m)]
    /\ UNCHANGED <<filterVars, plannerVars, schema>>

\* the mock client's Disconnect
ClientDisconnect ==
    /\ handler # Nil
    /\ handler.pc = "setup"
    /\ handler.connected
    /\ handler' = [handler EXCEPT !.connected = FALSE]
    /\ UNCHANGED <<filterVars, plannerVars, schema>>

\* Handle(ctx) is called; the tests cancel ctx beforehand
Handle(ctxDone) ==
    /\ handler # Nil
    /\ handler.pc = "setup"
    /\ handler' = [handler EXCEPT !.pc = "handle", !.ctxDone = ctxDone]
    /\ UNCHANGED <<filterVars, plannerVars, schema>>

\* ctx is cancelled while Handle runs
CancelContext ==
    /\ handler # Nil
    /\ handler.pc = "handle"
    /\ ~handler.ctxDone
    /\ handler' = [handler EXCEPT !.ctxDone = TRUE]
    /\ UNCHANGED <<filterVars, plannerVars, schema>>

\* one turn of the loop of Handle
HandleLoop ==
    /\ handler # Nil
    /\ handler.pc = "handle"
    /\ IF ~handler.connected
       THEN handler' = [handler EXCEPT !.pc = "returned"]
       ELSE IF handler.messageToServer = <<>>
       THEN /\ handler.ctxDone
            /\ handler' = [handler EXCEPT !.pc = "returned"]
       ELSE LET m == Head(handler.messageToServer)
                turn == HandleMessage(handler, m, Len(handler.handled) + 1)
            IN  handler' = [handler EXCEPT
                    !.messageToServer = Tail(@),
                    !.serverHasRead = TRUE,
                    !.messagesFromServer = @ \o turn.written,
                    !.connected = turn.connected,
                    !.subscriptions = turn.subscriptions,
                    !.tasks = turn.tasks,
                    !.hookCalled = turn.hookCalled,
                    !.handled = Append(@, [message |-> m, written |-> turn.written,
                                           before |-> handler.subscriptions,
                                           after |-> turn.subscriptions]),
                    !.pc = IF turn.return \/ handler.ctxDone
                           THEN "returned" ELSE "handle"]
    /\ UNCHANGED <<filterVars, plannerVars, schema>>

\* the goroutine of a started operation runs: it writes to the client and ends
RunOperation ==
    /\ handler # Nil
    /\ \E t \in handler.tasks :
          handler' = [handler EXCEPT
              !.tasks = @ \ {t},
              !.messagesFromServer = @ \o Execute(t),
              !.answers = Append(@, [k |-> t.k, written |-> Execute(t)])]
    /\ UNCHANGED <<filterVars, plannerVars, schema>>

HandlerInit == FilterIdle /\ PlannerIdle /\ handler = Nil /\ schema = Nil

HandlerNext ==
    \/ \E initFunc \in InitFuncs, hook \in Hooks : NewHandlerWithInitFunc(initFunc, hook)
    \/ \E m \in ClientMessages : ClientSend(m)
    \/ ClientDisconnect
    \/ \E ctxDone \in BOOLEAN : Handle(ctxDone)
    \/ CancelContext
    \/ HandleLoop
    \/ RunOperation

HandlerSpec == HandlerInit /\ [][HandlerNext]_vars

\* Handle and the goroutines of started operations are scheduled
HandlerLiveSpec == HandlerSpec /\ WF_vars(RunOperation) /\ WF_vars(HandleLoop)


-----------------------------------------------------------------------------
(* MergeDefinitionWithBaseSchema (asttransform): the schema definition gets
   the base schema, a schema definition with its root operation types, and
   the introspection fields on its query type.  A document is its object type
   definitions in the order of the input (name, names of the fields in
   order), whether it has a schema definition, the root operation type
   definitions (operation type, type name) and the query type name of its
   index.  The parser and ast.Document are not part of the sources; they are
   modelled by what their names and their use in handleSchema say.  The
   documents are those of schemas in which type names are unique and field
   names are unique within a type, and every named type is an object type. *)

MaxTypes == 2         \* most object types of the input
MaxTypeFields == 2    \* most fields of an object type of the input

DefaultQueryTypeName == "Query"
DefaultMutationTypeName == "Mutation"
DefaultSubscriptionTypeName == "Subscription"
TypeNames == {DefaultQueryTypeName, "MyQuery", DefaultMutationTypeName, DefaultSubscriptionTypeName}
FieldNames == {"a", "__schema", "__type"}

\* the sequences without repetition
Distinct(seq) == \A a, b \in 1..Len(seq) : a # b => seq[a] # seq[b]
FieldLists == { l \in SeqsUpTo(FieldNames, MaxTypeFields) : Distinct(l) }
ObjectTypes == { [Name |-> n, Refs |-> l] : n \in TypeNames, l \in FieldLists }

\* the schema definition of the input: none; one naming MyQuery or Query as the
\* query type; one with a mutation type only
SchemaParts ==
    { [HasSchemaDefinition |-> FALSE, RootOperationTypeDefinitions |-> <<>>, QueryTypeName |-> ""],
      [HasSchemaDefinition |-> TRUE,
       RootOperationTypeDefinitions |-> << [OperationType |-> "query", Name |-> "MyQuery"] >>,
       QueryTypeName |-> "MyQuery"],
      [HasSchemaDefinition |-> TRUE,
       RootOperationTypeDefinitions |-> << [OperationType |-> "query", Name |-> DefaultQueryTypeName] >>,
       QueryTypeName |-> DefaultQueryTypeName],
      [HasSchemaDefinition |-> TRUE,
       RootOperationTypeDefinitions |-> << [OperationType |-> "mutation", Name |-> DefaultMutationTypeName] >>,
       QueryTypeName |-> ""] }

Definitions ==
    { [ObjectTypeDefinitions |-> types,
       HasSchemaDefinition |-> part.HasSchemaDefinition,
       RootOperationTypeDefinitions |-> part.RootOperationTypeDefinitions,
       QueryTypeName |-> part.QueryTypeName] :
        types \in { l \in SeqsUpTo(ObjectTypes, MaxTypes) :
                      Distinct([k \in 1..Len(l) |-> l[k].Name]) },
        part \in SchemaParts }

\* the object types the text of baseSchema declares, by two of them
BaseSchemaTypes ==
    << [Name |-> "__Schema", Refs |-> <<"queryType">>],
       [Name |-> "__Type", Refs |-> <<"name">>] >>

\* Input.AppendInputBytes(baseSchema) and parser.Parse: the types of the base
\* schema come after the types of the input
ParseWithBaseSchema(definition) ==
    [definition EXCEPT !.ObjectTypeDefinitions = @ \o BaseSchemaTypes]

\* Index.FirstNodeByNameBytes / FirstNodeByNameStr: the ref of the first type
\* of that name, -1 when the index has none
FirstNodeByName(definition, name) ==
    LET at == { k \in 1..Len(definition.ObjectTypeDefinitions) :
                  definition.ObjectTypeDefinitions[k].Name = name }
    IN IF at = {} THEN -1 ELSE (CHOOSE k \in at : \A j \in at : k <= j) - 1

\* variant: only the indexed query type name is looked up
findQueryNode_IndexedOnly(definition) ==
    LET ref == FirstNodeByName(definition, definition.QueryTypeName)
    IN [Ref |-> ref, ok |-> ref # -1]

\* lines 130-137
findQueryNode(definition) ==
    LET byIndex == FirstNodeByName(definition, definition.QueryTypeName)
        byName == FirstNodeByName(definition, "Query")
    IN IF byIndex # -1 THEN [Ref |-> byIndex, ok |-> TRUE]
       ELSE [Ref |-> byName, ok |-> byName # -1]

\* definition.ImportObjectTypeDefinition(name, "", nil, nil): a new object type
\* without fields, and its ref
ImportObjectTypeDefinition(definition, name) ==
    [definition |-> [definition EXCEPT
                        !.ObjectTypeDefinitions = Append(@, [Name |-> name, Refs |-> <<>>])],
     ref |-> Len(definition.ObjectTypeDefinitions)]

\* lines 40-47
addSchemaDefinition(definition) ==
    IF definition.HasSchemaDefinition THEN definition
    ELSE [definition EXCEPT !.HasSchemaDefinition = TRUE]

\* variant: a root operation type is created whatever exists
createRootOperationTypeIfNotExists_Always(definition, operationType, i) ==
    [definition EXCEPT !.RootOperationTypeDefinitions =
        Append(@, [OperationType |-> operationType,
                   Name |-> definition.ObjectTypeDefinitions[i].Name])]

\* lines 72-81, with CreateRootOperationTypeDefinition: the root operation
\* type definitions after the call for the root node i
createRootOperationTypeIfNotExists(definition, operationType, i) ==
    IF \E k \in 1..Len(definition.RootOperationTypeDefinitions) :
          definition.RootOperationTypeDefinitions[k].OperationType = operationType
    THEN definition
    ELSE [definition EXCEPT !.RootOperationTypeDefinitions =
              Append(@, [OperationType |-> operationType,
                         Name |-> definition.ObjectTypeDefinitions[i].Name])]

\* lines 49-70: the loop over the root nodes, from node i on
RECURSIVE addMissingRootOperationTypeDefinitions(_, _)
addMissingRootOperationTypeDefinitions(definition, i) ==
    IF i > Len(definition.ObjectTypeDefinitions) THEN definition
    ELSE LET typeName == definition.ObjectTypeDefinitions[i].Name
             next == CASE typeName = DefaultQueryTypeName ->
                            createRootOperationTypeIfNotExists(definition, "query", i)
                       [] typeName = DefaultMutationTypeName ->
                            createRootOperationTypeIfNotExists(definition, "mutation", i)
                       [] typeName = DefaultSubscriptionTypeName ->
                            createRootOperationTypeIfNotExists(definition, "subscription", i)
                       [] OTHER -> definition
         IN addMissingRootOperationTypeDefinitions(next, i + 1)

\* definition.ObjectTypeDefinitionHasField(ref, name)
ObjectTypeDefinitionHasField(definition, ref, name) ==
    \E k \in 1..Len(definition.ObjectTypeDefinitions[ref + 1].Refs) :
        definition.ObjectTypeDefinitions[ref + 1].Refs[k] = name

\* variant: both fields are added whatever the type has
addIntrospectionQueryFields_Always(definition, objectTypeDefinitionRef) ==
    [definition EXCEPT !.ObjectTypeDefinitions[objectTypeDefinitionRef + 1].Refs =
        @ \o <<"__schema", "__type">>]

\* lines 83-95
addIntrospectionQueryFields(definition, objectTypeDefinitionRef) ==
    LET schemaField ==
            IF ~ObjectTypeDefinitionHasField(definition, objectTypeDefinitionRef, "__schema")
            THEN <<"__schema">> ELSE <<>>
        typeField ==
            IF ~ObjectTypeDefinitionHasField(definition, objectTypeDefinitionRef, "__type")
            THEN <<"__type">> ELSE <<>>
        fieldRefs == schemaField \o typeField
    IN [definition EXCEPT !.ObjectTypeDefinitions[objectTypeDefinitionRef + 1].Refs =
            @ \o fieldRefs]

\* typeNamesVisitor.ExtendSchema: every object type without the field
\* __typename gets it
ExtendSchema(definition) ==
    [definition EXCEPT !.ObjectTypeDefinitions =
        [k \in 1..Len(@) |->
            IF \E j \in 1..Len(@[k].Refs) : @[k].Refs[j] = "__typename"
            THEN @[k]
            ELSE [@[k] EXCEPT !.Refs = Append(@, "__typename")]]]

\* lines 22-38: the document and the query node ref handleSchema leaves
handleSchema(definition) ==
    LET queryNode == findQueryNode(definition)
        imported == ImportObjectTypeDefinition(definition, "Query")
        queryNodeRef == IF queryNode.ok THEN queryNode.Ref ELSE imported.ref
        start == IF queryNode.ok THEN definition ELSE imported.definition
        withIntrospection ==
            addIntrospectionQueryFields(
                addMissingRootOperationTypeDefinitions(addSchemaDefinition(start), 1),
                queryNodeRef)
    IN [definition |-> ExtendSchema(withIntrospection),
        queryNodeRef |-> queryNodeRef,
        hasQueryNode |-> queryNode.ok]

\* a caller holds a parsed schema definition
NewDefinition(definition) ==
    /\ schema = Nil
    /\ schema' = [definition |-> definition, input |-> definition, queryNodeRef |-> -1,
                  hasQueryNode |-> FALSE, err |-> FALSE, pc |-> "new"]
    /\ UNCHANGED <<filterVars, plannerVars, handler>>

\* lines 11-20: when the document with the base schema does not parse the
\* report is returned; else handleSchema runs, and returns what ExtendSchema
\* returns
MergeDefinitionWithBaseSchema(parses, extendErr) ==
    /\ schema # Nil
    /\ schema.pc = "new"
    /\ IF ~parses
       THEN schema' = [schema EXCEPT !.err = TRUE, !.pc = "failed"]
       ELSE LET r == handleSchema(ParseWithBaseSchema(schema.definition))
            IN schema' = [schema EXCEPT !.definition = r.definition,
                                        !.queryNodeRef = r.queryNodeRef,
                                        !.hasQueryNode = r.hasQueryNode,
                                        !.err = extendErr,
                                        !.pc = "merged"]
    /\ UNCHANGED <<filterVars, plannerVars, handler>>

\* addIntrospectionQueryFields is applied once more to the merged document
AddIntrospectionQueryFieldsAgain ==
    /\ schema # Nil
    /\ schema.pc = "merged"
    /\ schema' = [schema EXCEPT
                    !.definition = addIntrospectionQueryFields(@, schema.queryNodeRef),
                    !.pc = "again"]
    /\ UNCHANGED <<filterVars, plannerVars, handler>>

SchemaInit == FilterIdle /\ PlannerIdle /\ handler = Nil /\ schema = Nil

SchemaNext ==
    \/ \E definition \in Definitions : NewDefinition(definition)
    \/ \E parses, extendErr \in BOOLEAN : MergeDefinitionWithBaseSchema(parses, extendErr)
    \/ AddIntrospectionQueryFieldsAgain

SchemaSpec == SchemaInit /\ [][SchemaNext]_vars

-----------------------------------------------------------------------------
(* Properties of the selector, checked under FilterSpec *)

Returned == fPc = "returned"
FieldNotResolvedReturned == fResult.err.kind = "errOperationFieldNotResolved"
ReturnedOk == Returned /\ fResult.err = NoErr

\* the data source has the pair as root or child node
Resolves(ds, field) == field \in ds.root \cup ds.child
FieldsOf(operation) == { operation[n] : n \in 1..Len(operation) }
ElementsOf(list) == { list[i] : i \in 1..Len(list) }
\* fields of the operation that no source of the list resolves
Unresolvable(operation, dataSources) ==
    { f \in FieldsOf(operation) : \A ds \in ElementsOf(dataSources) : ~Resolves(ds, f) }
\* sets of places of fDataSources whose sources resolve every field of fOperation
CoveringSubsets ==
    { S \in SUBSET (1..Len(fDataSources)) :
        \A f \in FieldsOf(fOperation) : \E i \in S : Resolves(fDataSources[i], f) }

\* C1: when every field of the operation is resolvable and a list is returned,
\* no covering subset of the input list has fewer sources than the returned list
\* (and some covering subset has exactly that many).
C1_MinimalCover ==
    ReturnedOk =>
        /\ \A S \in CoveringSubsets : Len(fResult.filtered) <= Cardinality(S)
        /\ \E S \in CoveringSubsets : Len(fResult.filtered) = Cardinality(S)

\* the search had to exclude sources: the assignment on the full list is larger
\* than the returned list
C1_Witness ==
    /\ ReturnedOk
    /\ Len(fResult.filtered) >= 1
    /\ Len(findUsedDataSources(fOperation, fReport, fDataSources).planned) > Len(fResult.filtered)

\* C2: on return without error every field of the operation is a root or child
\* node of some returned source, and every returned source is one of the input list.
C2_ResultCovers ==
    ReturnedOk =>
        /\ \A f \in FieldsOf(fOperation) : \E ds \in ElementsOf(fResult.filtered) : Resolves(ds, f)
        /\ ElementsOf(fResult.filtered) \subseteq ElementsOf(fDataSources)

C2_Witness ==
    /\ ReturnedOk
    /\ Len(fResult.filtered) = 2
    /\ Len(fDataSources) = 3
    /\ Cardinality(FieldsOf(fOperation)) = 2

\* C3 as stated: a field-not-resolvable error is returned iff some field of the
\* operation has no covering source in the full list, and it names such a field.
C3_Original ==
    Returned =>
        /\ FieldNotResolvedReturned <=> Unresolvable(fOperation, fDataSources) # {}
        /\ FieldNotResolvedReturned =>
              <<fResult.err.TypeName, fResult.err.FieldName>> \in Unresolvable(fOperation, fDataSources)

\* C3 amended: the same, provided the report holds no error once the operation
\* is walked; with an error in the report the report itself is returned.
C3_FieldNotResolved ==
    Returned =>
        /\ FieldNotResolvedReturned <=>
              (~fReport /\ Unresolvable(fOperation, fDataSources) # {})
        /\ FieldNotResolvedReturned =>
              <<fResult.err.TypeName, fResult.err.FieldName>> \in Unresolvable(fOperation, fDataSources)
        /\ fReport => fResult.err = ReportErr

\* the full list resolves every field, a subset with one source excluded does
\* not, and the call returns a list
C3_Witness ==
    /\ ReturnedOk
    /\ Len(findUsedDataSources(fOperation, fReport, fDataSources).planned) >= 2
    /\ \E k \in 1..Len(fDataSources) :
          IsFieldNotResolved(
              findBestDataSourceSet(fOperation, fReport,
                                    dataSourcesSubset(fDataSources, k).subset).err)

-----------------------------------------------------------------------------
(* Properties of the Planner, checked under Spec *)

PlanReturned == pc = "returned"
InPlan == pc \notin {"new", "failed", "idle"}
\* a stage of this Plan call has added an error to the report
StageLeftError == Len(call.report) > Len(call.reportAtEntry)
LastError == call.report[Len(call.report)]
StageOrder ==
    << "selectOperation", "prepareOperation", "findPlanningPaths",
       "removeUnnecessaryFragmentPaths", "register", "planningWalk" >>

\* C4: when Plan returns with an error in the report, the Plan it returns is nil.
C4_NoPartialPlan ==
    (PlanReturned /\ HasErrors(call.report)) => call.plan = Nil

\* the planning walk built a plan and reported an error
C4_Witness ==
    /\ PlanReturned
    /\ "planningWalk" \in ran
    /\ HasErrors(call.report)
    /\ p.planningVisitor.plan # Nil
    /\ Len(p.planningVisitor.plan.fetches) = 2

\* C5: the stages start in the fixed order, and once a stage has left an error in
\* the report the call has returned: no stage and no pass is pending.
C5_AbortAtFirstError ==
    InPlan =>
        /\ \A k \in 1..Len(StageOrder) :
              StageOrder[k] \in ran => \A j \in 1..k : StageOrder[j] \in ran
        /\ ran \subseteq { StageOrder[k] : k \in 1..Len(StageOrder) }
        /\ passes > 0 => "findPlanningPaths" \in ran
        /\ (passes > 0 /\ "removeUnnecessaryFragmentPaths" \notin ran) =>
              pc \in {"revisit", "secondaryWalk", "returned"}
        /\ StageLeftError => PlanReturned

\* a secondary pass reported an error and the call returned without pruning
C5_Witness ==
    /\ PlanReturned
    /\ StageLeftError
    /\ passes = 3
    /\ ran = {"selectOperation", "prepareOperation", "findPlanningPaths"}

\* the name without its leading and trailing spaces
NonSpaces(name) == { k \in 1..Len(name) : name[k] # Space }
BlankName(name) == NonSpaces(name) = {}
CoreOf(name) ==
    LET lo == CHOOSE k \in NonSpaces(name) : \A j \in NonSpaces(name) : k <= j
        hi == CHOOSE k \in NonSpaces(name) : \A j \in NonSpaces(name) : k >= j
    IN [n \in 1..(hi - lo + 1) |-> name[lo + n - 1]]
SeveralOperations == Len(call.operation.operationDefinitions) > 1
NameMissing == SeveralOperations /\ BlankName(call.operationName)
NameUnmatched ==
    /\ SeveralOperations
    /\ ~BlankName(call.operationName)
    /\ \A n \in 1..Len(call.operation.operationDefinitions) :
          call.operation.operationDefinitions[n] # CoreOf(call.operationName)
SelectionErrorAdded(err) ==
    /\ call.report = Append(call.reportAtEntry, [class |-> "external", err |-> err])
    /\ call.plan = Nil
    /\ PlanReturned
    /\ ran = {"selectOperation"}

\* C6: with several operations, a name that is blank after trimming gets the
\* external error ErrRequiredOperationNameIsMissing and a name matching no
\* operation gets the external error ErrOperationWithProvidedOperationNameNotFound;
\* in both cases no plan is returned, and the step that runs selectOperation
\* leaves the operation name of both visitors as it was.
C6_OperationSelectionErrors ==
    /\ [](("selectOperation" \in ran /\ NameMissing) =>
            SelectionErrorAdded("ErrRequiredOperationNameIsMissing"))
    /\ [](("selectOperation" \in ran /\ NameUnmatched) =>
            SelectionErrorAdded("ErrOperationWithProvidedOperationNameNotFound"))
    /\ [][(pc = "selectOperation" /\ (NameMissing \/ NameUnmatched)) =>
            /\ p'.configurationVisitor.operationName = p.configurationVisitor.operationName
            /\ p'.planningVisitor.OperationName = p.planningVisitor.OperationName]_vars

\* a name of spaces only, given for a document with two operations
C6_Witness ==
    /\ PlanReturned
    /\ NameMissing
    /\ Len(call.operationName) > 0
    /\ LastError.err = "ErrRequiredOperationNameIsMissing"

\* two data sources of the list have the same id
HasDuplicateIds(dataSources) ==
    \E a, b \in 1..Len(dataSources) : a < b /\ dataSources[a].id = dataSources[b].id

\* C7: NewPlanner returns the duplicate datasource id error and no Planner iff
\* two data sources of the configuration share an id; otherwise a Planner and no error.
C7_DuplicateDataSourceId ==
    pc # "new" =>
        /\ HasDuplicateIds(newConfig.DataSources) <=>
              (newErr.kind = "duplicate datasource id" /\ p = Nil)
        /\ ~HasDuplicateIds(newConfig.DataSources) => (newErr = NoErr /\ p # Nil)
        /\ newErr.kind = "duplicate datasource id" =>
              \E a, b \in 1..Len(newConfig.DataSources) :
                  a < b /\ newConfig.DataSources[a].id = newErr.id
                        /\ newConfig.DataSources[b].id = newErr.id

C7_Witness ==
    /\ pc = "failed"
    /\ Len(newConfig.DataSources) = 2
    /\ newErr.kind = "duplicate datasource id"
    /\ p = Nil

\* C8: once findPlanningPaths has gone on to the path pruner (it returned with no
\* error in the report), the last configuration pass left no new fields, no
\* missing path and no field waiting for a dependency.
C8_ConvergedBeforePruning ==
    (InPlan /\ "removeUnnecessaryFragmentPaths" \in ran) =>
        /\ ~p.configurationVisitor.hasNewFields
        /\ p.configurationVisitor.missingPathTracker = {}
        /\ ~p.configurationVisitor.fieldsWaitingForDependency

\* the run converged after two revisits
C8_Witness ==
    /\ InPlan
    /\ "removeUnnecessaryFragmentPaths" \in ran
    /\ passes = 3
    /\ pc = "register"

\* every pass of this call, the last one included, left shouldRevisit() true:
\* the driver never left the loop for the pruner, and the flags of the last pass say so
EveryPassRevisits ==
    /\ passes > 0
    /\ "removeUnnecessaryFragmentPaths" \notin ran
    /\ shouldRevisit(p.configurationVisitor)
NonConvergenceReported ==
    \E n \in 1..Len(call.report) :
        call.report[n].class = "internal" /\ call.report[n].err = "bad datasource configuration"

\* no pass of this call reported an error of its own
NoPassError == \A n \in 1..Len(call.report) : call.report[n].err # "configuration walk"

\* C9 as stated: a run whose passes all complete and leave shouldRevisit() true
\* ends with the non-convergence internal error in the report and a nil Plan.
C9_Original ==
    (PlanReturned /\ EveryPassRevisits /\ NoPassError) =>
        (NonConvergenceReported /\ call.plan = Nil)

\* C9 amended: such a run makes at most MaxIterations + 1 passes and ends with a
\* nil Plan and an error in the report; the error is the non-convergence internal
\* error, after exactly MaxIterations + 1 passes, unless a pass or a selector
\* invocation reported an error of its own first.
C9_NonConvergence ==
    /\ InPlan => passes <= MaxIterations + 1
    /\ (PlanReturned /\ EveryPassRevisits) =>
          /\ call.plan = Nil
          /\ HasErrors(call.report)
          /\ \/ NonConvergenceReported /\ LastError.class = "internal"
                  /\ passes = MaxIterations + 1
             \/ LastError.err \in {"configuration walk", "errOperationFieldNotResolved"}
                  /\ ~NonConvergenceReported

\* the ceiling was hit with only new fields keeping the run alive
C9_Witness ==
    /\ PlanReturned
    /\ NonConvergenceReported
    /\ call.plan = Nil
    /\ p.configurationVisitor.hasNewFields
    /\ p.configurationVisitor.missingPathTracker = {}

\* C10 as stated: at most MaxIterations passes in one Plan call, the first included.
C10_Original == InPlan => passes <= MaxIterations

\* C10 amended: the first pass and at most MaxIterations secondary passes, so at
\* most MaxIterations + 1 passes; call.i counts the passes that completed.
C10_PassBound ==
    InPlan =>
        /\ passes <= MaxIterations + 1
        /\ call.i <= MaxIterations + 1
        /\ passes - 1 <= call.i /\ call.i <= passes

C10_Witness ==
    /\ InPlan
    /\ passes = MaxIterations + 1
    /\ call.i = MaxIterations + 1

\* C11: a pass that ends without errors and leaves shouldRevisit() false makes the
\* driver stop as converged and go on to the path pruner; the non-convergence
\* error is in the report only when shouldRevisit() is still true after the pass
\* that reached the ceiling, never after a pass that converged.
C11_ConvergedPassStops ==
    /\ (PlanReturned /\ passes > 0 /\ NoPassError /\ ~shouldRevisit(p.configurationVisitor)) =>
          "removeUnnecessaryFragmentPaths" \in ran
    /\ (PlanReturned /\ NonConvergenceReported) => shouldRevisit(p.configurationVisitor)

\* C12: the non-convergence error is an internal error of the report and lists
\* exactly the paths the missing-path tracker holds when the ceiling is exceeded:
\* every tracked path once, no other path, possibly none.
C12_ErrorListsMissingPaths ==
    PlanReturned =>
        \A n \in 1..Len(call.report) :
            call.report[n].err = "bad datasource configuration" =>
                /\ call.report[n].class = "internal"
                /\ n = Len(call.report)
                /\ passes = MaxIterations + 1
                /\ { call.report[n].missingPaths[k] : k \in 1..Len(call.report[n].missingPaths) }
                      = p.configurationVisitor.missingPathTracker
                /\ Len(call.report[n].missingPaths)
                      = Cardinality(p.configurationVisitor.missingPathTracker)

\* the ceiling was exceeded with two paths in the tracker
C12_Witness ==
    /\ PlanReturned
    /\ NonConvergenceReported
    /\ Cardinality(p.configurationVisitor.missingPathTracker) = 2
    /\ Len(LastError.missingPaths) = 2

\* a step of the loop head: from the loop condition to the next pass, or to the
\* return after a selector invocation that reported an error
LoopHeadStep == pc = "revisit" /\ pc' \in {"secondaryWalk", "returned"}

\* C13: before the first pass the selector is invoked with no prior node
\* suggestions and no hints; before each later pass it is invoked again, with the
\* visitor's current node suggestions and accumulated hints, exactly when
\* hasNewFields is true at that point; when it is not invoked, the visitor's
\* dataSources and nodeSuggestions stay what they were in the previous pass.
C13_SelectorInvocations ==
    /\ [](pc = "initialWalk" => call.selector = [existingNodes |-> {}, hints |-> {}])
    /\ [][LoopHeadStep =>
            IF p.configurationVisitor.hasNewFields
            THEN call'.selector =
                    [existingNodes |-> p.configurationVisitor.nodeSuggestions,
                     hints |-> p.configurationVisitor.nodeSuggestionHints]
            ELSE /\ call'.selector = Nil
                 /\ p'.configurationVisitor.dataSources = p.configurationVisitor.dataSources
                 /\ p'.configurationVisitor.nodeSuggestions
                        = p.configurationVisitor.nodeSuggestions]_vars

\* the selector was invoked again with prior suggestions and a hint, and a later
\* pass of the same run was started without invoking it
C13_Witness ==
    /\ pc = "secondaryWalk"
    /\ call.selector = Nil
    /\ passes >= 2
    /\ p.configurationVisitor.nodeSuggestionHints # {}
    /\ Cardinality(p.configurationVisitor.nodeSuggestions) = 3
    /\ Len(p.configurationVisitor.dataSources) = 2

\* the last pass of this call ended without errors and left shouldRevisit() false
LastPassConverged ==
    passes > 0 /\ NoPassError /\ ~shouldRevisit(p.configurationVisitor)
\* the driver has acted on the last pass: the run is past the loop or has returned
PastLoop == pc \in {"register", "planningWalk", "returned"}
\* every planner is what RemoveLeafFragmentPaths makes of the planner the last pass left
EveryPlannerPruned ==
    /\ Len(p.configurationVisitor.planners) = Len(call.beforePruning)
    /\ \A k \in 1..Len(call.beforePruning) :
          p.configurationVisitor.planners[k] = RemoveLeafFragmentPaths(call.beforePruning[k]).planner
    /\ p.planningVisitor.planners = p.configurationVisitor.planners

\* C14: in a run that converges the path pruner runs exactly once, after the last
\* pass and before the plan is assembled, on every planner; in a run that aborts
\* with an error or does not converge it does not run.
C14_PrunerRunsOnce ==
    InPlan =>
        /\ call.pruned <= 1
        /\ (PastLoop /\ LastPassConverged) => call.pruned = 1
        /\ call.pruned = 1 =>
              /\ PastLoop /\ LastPassConverged
              /\ EveryPlannerPruned
        /\ "planningWalk" \in ran =>
              /\ call.pruned = 1
              /\ p.planningVisitor.plan = PlanOf(p.configurationVisitor.planners)
        /\ (PlanReturned /\ ~LastPassConverged) => call.pruned = 0

\* entry k of a planner's paths is a fragment path that is a proper prefix of no
\* other path of the planner
LeafFragment(paths, k) ==
    /\ paths[k].pathType = "fragment"
    /\ \A j \in 1..Len(paths) :
          ~(/\ Len(paths[j].path) > Len(paths[k].path)
            /\ SubSeq(paths[j].path, 1, Len(paths[k].path)) = paths[k].path)
HasLeafFragment(paths) == \E k \in 1..Len(paths) : LeafFragment(paths, k)
PathsKept(before, after) ==
    \A k \in 1..Len(before) :
        ~LeafFragment(before, k) => \E j \in 1..Len(after) : after[j] = before[k]

\* C15: once the path pruner has run, no planner holds a fragment path that is
\* a prefix of no other path of that planner, and no such path is in the plan
\* that is returned; every other path the last pass left (field paths, and
\* fragment paths with a field selected under them) is kept.
C15_NoLeafFragmentPaths ==
    (InPlan /\ call.pruned > 0) =>
        /\ \A k \in 1..Len(p.configurationVisitor.planners) :
              /\ ~HasLeafFragment(p.configurationVisitor.planners[k].paths)
              /\ PathsKept(call.beforePruning[k].paths, p.configurationVisitor.planners[k].paths)
        /\ \A k \in 1..Len(p.planningVisitor.planners) :
              ~HasLeafFragment(p.planningVisitor.planners[k].paths)
        /\ call.plan # Nil =>
              \A k \in 1..Len(call.plan.fetches) : ~HasLeafFragment(call.plan.fetches[k].paths)

\* a plan was returned after the pruner took a leaf fragment path from a planner
\* in second place
C15_Witness ==
    /\ PlanReturned
    /\ call.plan # Nil
    /\ Len(call.beforePruning) = 2
    /\ HasLeafFragment(call.beforePruning[2].paths)
    /\ Len(call.plan.fetches[2].paths) = Len(call.beforePruning[2].paths) - 1

\* the running call was given what the earlier call k was given, each a fresh report
SameCallAs(k) ==
    /\ call.document = done[k].document
    /\ call.operationName = done[k].operationName
    /\ call.opts = done[k].opts
    /\ call.reportAtEntry = <<>>
    /\ done[k].reportAtEntry = <<>>

\* C16: a Plan call that repeats an earlier call on the same Planner (same
\* operation, operation name, options and configuration, a fresh report each)
\* returns what the earlier call returned: the same plan, or the same errors in
\* the report.
C16_Idempotence ==
    PlanReturned =>
        \A k \in 1..Len(done) :
            SameCallAs(k) => (call.plan = done[k].plan /\ call.report = done[k].report)

\* the planners that hold the path of field n of the operation as a field path
PlannersOfField(n) ==
    { k \in 1..Len(p.planningVisitor.planners) :
        \E j \in 1..Len(p.planningVisitor.planners[k].paths) :
            /\ p.planningVisitor.planners[k].paths[j].pathType = "field"
            /\ p.planningVisitor.planners[k].paths[j].path = call.operation.paths[n] }

RegisterFailed ==
    \E n \in 1..Len(call.report) : call.report[n].err = "register"

\* C18: when registering a planner's callbacks fails, the error is added to the
\* report as an internal error, Plan returns no plan, no planner after the
\* failing one is registered and the planning walk is not run.
C18_RegisterFailure ==
    (InPlan /\ RegisterFailed) =>
        /\ PlanReturned
        /\ LastError = [class |-> "internal", err |-> "register"]
        /\ Len(call.report) = Len(call.reportAtEntry) + 1
        /\ call.plan = Nil
        /\ "planningWalk" \notin ran
        /\ call.registered = [k \in 1..(call.key + 1) |-> k - 1]
        /\ call.key < Len(p.planningVisitor.planners)

\* the first of two planners failed to register
C18_Witness ==
    /\ PlanReturned
    /\ RegisterFailed
    /\ call.registered = <<0>>
    /\ Len(p.planningVisitor.planners) = 2

\* C19: the minimal-cover search does not modify the data source list it is
\* given: when FilterDataSources has returned, with a result or with an error,
\* the caller's list holds the same elements in the same order as when it was
\* passed, whatever subsets the search built on the way.
C19_ListUnmodified ==
    Returned => fResult.dataSources = fDataSources

\* a search over three data sources that built subsets at two recursion levels:
\* the full list and some subset of it both use more than one data source
C19_Witness ==
    /\ Returned
    /\ Len(fDataSources) = 3
    /\ fResult.dataSources = fDataSources
    /\ Len(findUsedDataSources(fOperation, fReport, fDataSources).planned) >= 2
    /\ \E k \in 1..Len(fDataSources) :
          Len(findUsedDataSources(fOperation, fReport,
                                  dataSourcesSubset(fDataSources, k).subset).planned) >= 2

-----------------------------------------------------------------------------
(* Properties of the subscription handler, checked under HandlerSpec *)

\* the connection_init messages Handle has read without a read error
InitsHandled ==
    IF handler = Nil THEN {}
    ELSE {k \in 1..Len(handler.handled) :
            /\ handler.handled[k].message.type = MessageTypeConnectionInit
            /\ ~handler.handled[k].message.err}

\* the handler's init function, if any, accepts the payload of message k
InitAccepted(k) ==
    \/ ~handler.initFunc.set
    \/ InitFunc(handler.initFunc.initPayloadAuthorization,
                handler.handled[k].message.payload) = ""

TypesWritten(k) ==
    {handler.handled[k].written[j].type : j \in 1..Len(handler.handled[k].written)}

\* C20: a connection_init message is answered with connection_ack when
\* the handler has no init function or its init function accepts the
\* payload; when the init function rejects the payload the answer is a
\* connection_terminate message carrying 'failed to accept the websocket
\* connection', no connection_ack is sent for it, and every answer
\* reaches the client.
C20_ConnectionInit ==
    \A k \in InitsHandled :
        /\ IF InitAccepted(k)
           THEN MessageTypeConnectionAck \in TypesWritten(k)
           ELSE /\ handler.handled[k].written =
                       <<ServerMessage(MessageTypeConnectionTerminate, FailedToAccept)>>
                /\ MessageTypeConnectionAck \notin TypesWritten(k)
        /\ \A j \in 1..Len(handler.handled[k].written) :
               \E i \in 1..Len(handler.messagesFromServer) :
                   handler.messagesFromServer[i] = handler.handled[k].written[j]

\* an accepted connection_init followed by a rejected one, both answered,
\* on a handler that has returned
C20_Witness ==
    /\ handler # Nil
    /\ handler.pc = "returned"
    /\ \E k \in InitsHandled : InitAccepted(k) /\ handler.handled[k].message.payload = "123"
    /\ \E k \in InitsHandled : ~InitAccepted(k)

\* the start messages Handle has read
StartsHandled ==
    IF handler = Nil THEN {}
    ELSE {k \in 1..Len(handler.handled) :
            handler.handled[k].message.type = MessageTypeStart}

\* the start messages carrying a valid query or mutation
OneShotsHandled ==
    {k \in StartsHandled :
        /\ ~IsSubscription(handler.handled[k].message.payload)
        /\ ExecutionError(handler.handled[k].message.payload) = ""}

\* the goroutine started for message k, if any, has ended
Settled(k) == \A t \in handler.tasks : t.k # k

\* everything the handler wrote for message k, in the order written
WrittenFor(k) ==
    LET answer == SelectSeq(handler.answers, LAMBDA a : a.k = k)
    IN  handler.handled[k].written \o
        (IF answer = <<>> THEN <<>> ELSE answer[1].written)

Written(k, type) ==
    \E j \in 1..Len(WrittenFor(k)) :
        /\ WrittenFor(k)[j].type = type
        /\ WrittenFor(k)[j].id = handler.handled[k].message.id

\* C21 as stated: every start message carrying a valid query or mutation
\* is answered with a data and a complete message of its id, and once they
\* are sent ActiveSubscriptions() is 0.
C21_Original ==
    \A k \in OneShotsHandled :
        Settled(k) =>
            /\ Written(k, MessageTypeData)
            /\ Written(k, MessageTypeComplete)
            /\ ActiveSubscriptions(handler) = 0

\* the start messages carrying a valid query or mutation that the
\* before-start hook let pass
OneShotsAccepted ==
    {k \in OneShotsHandled :
        handler.handled[k].message.payload \notin handler.hook.rejects}

\* a step that reads a start message of a one-shot operation, or in which
\* the goroutine of one runs
OneShotStep ==
    /\ handler # Nil
    /\ handler' # Nil
    /\ \/ /\ handler.messageToServer # <<>>
          /\ Len(handler'.handled) = Len(handler.handled) + 1
          /\ Head(handler.messageToServer).type = MessageTypeStart
          /\ ~IsSubscription(Head(handler.messageToServer).payload)
       \/ \E t \in handler.tasks \ handler'.tasks : ~IsSubscription(t.request)

\* C21: a start message carrying a valid query or mutation that the
\* before-start hook lets pass is answered with exactly a data message with
\* the result and then a complete message, both with the id of the start;
\* the answer arrives once the operation's goroutine is scheduled; and a
\* one-shot operation is never registered as a subscription: reading it and
\* running it leave ActiveSubscriptions() as it was.
C21_OneShotAnswered ==
    /\ [](\A k \in OneShotsAccepted :
            Settled(k) =>
                WrittenFor(k) =
                    <<OperationMessage(handler.handled[k].message.id, MessageTypeData,
                                       handler.handled[k].message.payload),
                      OperationMessage(handler.handled[k].message.id,
                                       MessageTypeComplete, "")>>)
    /\ [][OneShotStep =>
            ActiveSubscriptions(handler') = ActiveSubscriptions(handler)]_vars
    /\ \A k \in 1..MaxMessages :
          (k \in OneShotsAccepted) ~> (k \in OneShotsAccepted /\ Settled(k))

\* a valid mutation was started, let pass by the hook and answered, with no
\* subscription active
C21_Witness ==
    /\ handler # Nil
    /\ \E k \in OneShotsAccepted :
          /\ Settled(k)
          /\ Written(k, MessageTypeData)
          /\ Written(k, MessageTypeComplete)
    /\ ActiveSubscriptions(handler) = 0

\* the start messages the before-start hook returned an error for
StartsRejected ==
    {k \in StartsHandled :
        handler.handled[k].message.payload \in handler.hook.rejects}

\* the hook was called for every start message read, no operation runs
\* unless the hook was called for its start message and returned no error,
\* and a rejected start message is answered with the hook's error under the
\* id of the start and with nothing else
HookDecides ==
    /\ \A k \in StartsHandled : k \in handler.hookCalled
    /\ handler # Nil =>
          /\ \A t \in handler.tasks :
                t.k \in handler.hookCalled /\ t.k \notin StartsRejected
          /\ \A j \in 1..Len(handler.answers) :
                /\ handler.answers[j].k \in handler.hookCalled
                /\ handler.answers[j].k \notin StartsRejected
    /\ \A k \in StartsRejected :
          WrittenFor(k) =
              <<OperationMessage(handler.handled[k].message.id, MessageTypeError,
                                 handler.hook.err)>>

\* C22 as stated: the hook is called for every start message before the
\* operation runs, and when it returns an error the handler sends the error
\* under the start's id, no data message for it, and ActiveSubscriptions()
\* is 0 once the start message is dealt with.
C22_Original ==
    /\ HookDecides
    /\ \A k \in StartsRejected : Cardinality(handler.handled[k].after) = 0

\* C22: the hook is called for every start message before the operation
\* runs; when it returns an error the handler answers with exactly one error
\* message with the start's id carrying the hook's error text, sends no data
\* message in answer to that start, runs nothing for it and registers no
\* subscription for it: ActiveSubscriptions() is what it was before the
\* start message - for queries and mutations as well as for subscriptions.
C22_HookError ==
    /\ HookDecides
    /\ \A k \in StartsRejected : handler.handled[k].after = handler.handled[k].before

\* the hook rejected a mutation and a subscription, both were answered
\* with its error, and nothing is registered
C22_Witness ==
    /\ handler # Nil
    /\ \E k \in StartsRejected : IsSubscription(handler.handled[k].message.payload)
    /\ \E k \in StartsRejected : ~IsSubscription(handler.handled[k].message.payload)
    /\ ActiveSubscriptions(handler) = 0
    /\ Len(handler.messagesFromServer) = 2

\* the stop messages Handle has read
StopsHandled ==
    IF handler = Nil THEN {}
    ELSE {k \in 1..Len(handler.handled) :
            handler.handled[k].message.type = MessageTypeStop}

\* C23: a stop message with id X is answered with a complete message with
\* id X, and once it is dealt with no subscription with id X is active and
\* the other subscriptions are as before (none is active when X was the
\* only one), also when no subscription with id X had been started.
C23_Stop ==
    \A k \in StopsHandled :
        LET stop == handler.handled[k]
        IN  /\ stop.written = <<OperationMessage(stop.message.id, MessageTypeComplete, "")>>
            /\ stop.message.id \notin stop.after
            /\ stop.after = stop.before \ {stop.message.id}
            /\ stop.before \subseteq {stop.message.id} => Cardinality(stop.after) = 0

\* a subscription was started and then stopped: it was the only one, and
\* none is active afterwards
C23_Witness ==
    \E k \in StopsHandled :
        /\ handler.handled[k].before = {handler.handled[k].message.id}
        /\ handler.handled[k].after = {}
        /\ ActiveSubscriptions(handler) = 0

\* the connection_terminate messages Handle has read without a read error
TerminatesHandled ==
    IF handler = Nil THEN {}
    ELSE {k \in 1..Len(handler.handled) :
            /\ handler.handled[k].message.type = MessageTypeConnectionTerminate
            /\ ~handler.handled[k].message.err}

\* Handle runs and finds the client disconnected
FoundDisconnected ==
    /\ handler # Nil
    /\ handler.pc = "handle"
    /\ ~handler.connected

HandleReturned == handler # Nil /\ handler.pc = "returned"

\* C24: on a connection_terminate message the handler disconnects the
\* client and Handle returns, reading nothing after it; when the client is
\* already disconnected Handle reads no message from the client, and
\* returns.
C24_ConnectionLifetime ==
    /\ [](\A k \in TerminatesHandled :
            /\ ~handler.connected
            /\ handler.pc = "returned"
            /\ k = Len(handler.handled))
    /\ [](handler # Nil /\ handler.handled = <<>> => ~handler.serverHasRead)
    /\ [][FoundDisconnected =>
            /\ handler'.handled = handler.handled
            /\ handler'.messageToServer = handler.messageToServer
            /\ handler'.serverHasRead = handler.serverHasRead]_vars
    /\ FoundDisconnected ~> HandleReturned

\* a connection_terminate message was read: the client is disconnected and
\* Handle has returned with the message behind it unread
C24_Witness ==
    /\ TerminatesHandled # {}
    /\ ~handler.connected
    /\ handler.pc = "returned"
    /\ handler.messageToServer # <<>>

-----------------------------------------------------------------------------
(* Further properties of the selector, checked under FilterSpec *)

\* places in fOperation of the fields no source of fDataSources resolves
UnresolvablePlaces ==
    { n \in 1..Len(fOperation) :
        \A ds \in ElementsOf(fDataSources) : ~Resolves(ds, fOperation[n]) }

FirstUnresolvable == CHOOSE n \in UnresolvablePlaces : \A m \in UnresolvablePlaces : n <= m

\* the visitor of findUsedDataSources once the operation is walked
Walked ==
    WalkFields([dataSources |->
                   [ii \in 1..Len(fDataSources) |->
                       [DataSource |-> fDataSources[ii], UsedNodes |-> <<>>]],
                err |-> NoErr],
               fOperation, 1)

RECURSIVE SumOfLens(_, _)
SumOfLens(dataSources, i) ==
    IF i > Len(dataSources) THEN 0
    ELSE Len(dataSources[i].UsedNodes) + SumOfLens(dataSources, i + 1)

\* C25: when some fields of the operation are resolvable by no data source,
\* the field-not-resolvable error names the first of them in traversal
\* order, and no field after it is examined: the walk has recorded used
\* nodes only for the fields before it.
C25_FailsFast ==
    (Returned /\ FieldNotResolvedReturned) =>
        /\ fResult.err = errOperationFieldNotResolved(fOperation[FirstUnresolvable][1],
                                                      fOperation[FirstUnresolvable][2])
        /\ SumOfLens(Walked.dataSources, 1) <= FirstUnresolvable - 1

\* the data sources of an assignment, in order
SourcesOf(planned) == [i \in 1..Len(planned) |-> planned[i].DataSource]

\* the assignment computed on the full list
OnFullList == findUsedDataSources(fOperation, fReport, fDataSources).planned

\* the result of the search with the source at place k excluded
Excluding(k) ==
    findBestDataSourceSet(fOperation, fReport, dataSourcesSubset(fDataSources, k).subset)

\* the places whose exclusion still resolves every field
Excludable == { k \in 1..Len(fDataSources) : Excluding(k).err = NoErr }

\* the places whose exclusion yields a result of the least size
LeastExcluding ==
    { k \in Excludable : \A j \in Excludable :
        Len(Excluding(k).planned) <= Len(Excluding(j).planned) }

\* C26: ties in the minimal-cover search are broken by exclusion order only:
\* the result is the assignment computed on the full list if no exclusion
\* yields a smaller one, otherwise the result of excluding the lowest index
\* among those that yield the least size; a result of equal size never
\* replaces an earlier one.
C26_TieBreaking ==
    ReturnedOk =>
        IF \A k \in Excludable : Len(Excluding(k).planned) >= Len(OnFullList)
        THEN fResult.filtered = SourcesOf(OnFullList)
        ELSE LET first == CHOOSE k \in LeastExcluding : \A j \in LeastExcluding : k <= j
             IN  fResult.filtered = SourcesOf(Excluding(first).planned)

\* several covering subsets of the least size exist and the assignment on
\* the full list is larger: excluding either of two sources yields two
\* different results of the least size, and the one of the lower index is
\* returned
C26_Witness ==
    /\ ReturnedOk
    /\ Len(fResult.filtered) >= 2
    /\ Len(fResult.filtered) < Len(OnFullList)
    /\ \E j, k \in LeastExcluding :
          /\ j < k
          /\ SourcesOf(Excluding(j).planned) # SourcesOf(Excluding(k).planned)
          /\ fResult.filtered = SourcesOf(Excluding(j).planned)

\* the field is resolved by the source at place i of fDataSources and by
\* none before it
FirstResolver(field, i) ==
    /\ Resolves(fDataSources[i], field)
    /\ \A j \in 1..(i - 1) : ~Resolves(fDataSources[j], field)

\* the used nodes the source at place i is due: the field occurrences it is
\* the first resolver of, in traversal order
UsedNodesDue(i) == SelectSeq(fOperation, LAMBDA field : FirstResolver(field, i))

\* C27: findUsedDataSources records every field occurrence as a UsedNode on
\* exactly one data source, the first in list order that has the (enclosing
\* type, field) as root or child node (an occurrence no source has is
\* recorded nowhere), so a source that comes after another covering source
\* gets no UsedNode for the field; and when it returns a list, that list is
\* exactly the data sources that received at least one UsedNode, in list
\* order, each with its used nodes.
C27_UsedNodes ==
    Returned =>
        LET used == findUsedDataSources(fOperation, fReport, fDataSources)
            due == [i \in 1..Len(fDataSources) |->
                       [DataSource |-> fDataSources[i], UsedNodes |-> UsedNodesDue(i)]]
        IN  /\ Walked.dataSources = due
            /\ used.err = NoErr <=> (~fReport /\ UnresolvablePlaces = {})
            /\ used.err = NoErr =>
                  used.planned = SelectSeq(due, LAMBDA u : u.UsedNodes # <<>>)

\* a field occurs twice and two sources have it: both occurrences are
\* recorded on the first of them, the second source is returned all the
\* same, for another field
C27_Witness ==
    /\ Returned
    /\ ~fReport
    /\ UnresolvablePlaces = {}
    /\ \E i, j \in 1..Len(fDataSources) :
          /\ i < j
          /\ Len(UsedNodesDue(i)) = 2
          /\ Resolves(fDataSources[j], UsedNodesDue(i)[1])
          /\ UsedNodesDue(i)[1] = UsedNodesDue(i)[2]
          /\ Len(UsedNodesDue(j)) = 1
    /\ Len(findUsedDataSources(fOperation, fReport, fDataSources).planned) = 2


-----------------------------------------------------------------------------
(* Further properties of the planner *)

SingleOperation == Len(call.operation.operationDefinitions) = 1
TheOperation == call.operation.operationDefinitions[1]
SingleUnmatched ==
    /\ SingleOperation
    /\ ~BlankName(call.operationName)
    /\ TheOperation # CoreOf(call.operationName)

\* C28: with exactly one operation in the document, a name that is blank
\* after trimming makes the step that runs selectOperation set the operation
\* name of both visitors to the name of that operation, whatever it is, and
\* add nothing to the report; a name that is not blank and is not the name of
\* that operation gets the external error
\* ErrOperationWithProvidedOperationNameNotFound, no plan is returned and the
\* call returns right after selectOperation.
C28_SingleOperation ==
    /\ [][(pc = "selectOperation" /\ SingleOperation /\ BlankName(call.operationName)) =>
            /\ p'.configurationVisitor.operationName = TheOperation
            /\ p'.planningVisitor.OperationName = TheOperation
            /\ call'.report = call.report]_vars
    /\ [](("selectOperation" \in ran /\ SingleUnmatched) =>
            SelectionErrorAdded("ErrOperationWithProvidedOperationNameNotFound"))

\* the name C was given for a document whose only operation is A, and the
\* call returned the error
C28_Witness ==
    /\ PlanReturned
    /\ SingleUnmatched
    /\ TheOperation = NameA
    /\ LastError.err = "ErrOperationWithProvidedOperationNameNotFound"
    /\ call.plan = Nil

\* a name of one space selected the only operation, A
C28_WitnessBlank ==
    /\ "selectOperation" \in ran
    /\ SingleOperation
    /\ call.operationName = <<Space>>
    /\ TheOperation = NameA
    /\ p.planningVisitor.OperationName = NameA
    /\ call.report = <<>>


\* what the planner at index k - 1 of the planner list offers
Offers(k, capability) ==
    capability \in Capabilities(p.planningVisitor.planners[k].dataSourceId)

\* C29: for every planner Register was called on, its Planner() was by then
\* such that the request minifier is enabled exactly if the configuration
\* given to NewPlanner sets MinifySubgraphOperations and the planner offers
\* SubgraphRequestMinifier, the query plan is included exactly if the Plan
\* call was given IncludeQueryPlanInResponse and the planner offers
\* QueryPlanProvider, and a planner that offers VisitorIdentifier has its
\* index in the planner list as id; when the planning walk starts this has
\* been done for every planner of the list.
C29_CapabilityProbing ==
    InPlan =>
        /\ Len(call.probed) = Len(call.registered)
        /\ \A k \in 1..Len(call.probed) :
              /\ call.registered[k] = k - 1
              /\ call.probed[k].minifier <=>
                    (newConfig.MinifySubgraphOperations /\ Offers(k, "SubgraphRequestMinifier"))
              /\ call.probed[k].includeQueryPlan <=>
                    (call.opts.includeQueryPlanInResponse /\ Offers(k, "QueryPlanProvider"))
              /\ Offers(k, "VisitorIdentifier") => call.probed[k].id = k - 1
        /\ (pc = "planningWalk" \/ "planningWalk" \in ran) =>
              Len(call.probed) = Len(p.planningVisitor.planners)

\* two planners were registered in a call that asked for the query plan under
\* a configuration that does not ask for minification: the first offers
\* everything, includes the query plan, does not minify and has the id 0; the
\* second offers the identifier only and has the id 1 and nothing else
C29_Witness ==
    /\ InPlan
    /\ Len(call.probed) = 2
    /\ ~newConfig.MinifySubgraphOperations
    /\ call.opts.includeQueryPlanInResponse
    /\ Offers(1, "SubgraphRequestMinifier")
    /\ call.probed[1] = [minifier |-> FALSE, includeQueryPlan |-> TRUE, id |-> 0]
    /\ ~Offers(2, "QueryPlanProvider")
    /\ call.probed[2] = [minifier |-> FALSE, includeQueryPlan |-> FALSE, id |-> 1]


-----------------------------------------------------------------------------
(* Properties of the base schema merge, checked under SchemaSpec *)

\* handleSchema has run on the document
Merged == schema # Nil /\ schema.pc \in {"merged", "again"}
QueryType == schema.definition.ObjectTypeDefinitions[schema.queryNodeRef + 1]
Count(seq, x) == Cardinality({ k \in 1..Len(seq) : seq[k] = x })
\* the input has a type under the query type name of its index, or named Query
InputHasQueryType ==
    \E k \in 1..Len(schema.input.ObjectTypeDefinitions) :
        schema.input.ObjectTypeDefinitions[k].Name \in {schema.input.QueryTypeName, "Query"}

\* C30: after handleSchema the document has its query type: the first type
\* under the indexed query type name, else the first type named Query, else a
\* type Query imported by handleSchema (and only then is a type added to those
\* of the input and the base schema); its field list holds __schema and __type
\* exactly once each, with the fields it had in the input kept in front; and
\* applying addIntrospectionQueryFields to it once more leaves the document as
\* it is.
C30_IntrospectionFields ==
    /\ [](Merged =>
            /\ schema.queryNodeRef + 1 \in 1..Len(schema.definition.ObjectTypeDefinitions)
            /\ QueryType.Name \in {schema.input.QueryTypeName, "Query"}
            /\ schema.hasQueryNode <=> InputHasQueryType
            /\ Len(schema.definition.ObjectTypeDefinitions) =
                  Len(schema.input.ObjectTypeDefinitions) + Len(BaseSchemaTypes)
                    + (IF InputHasQueryType THEN 0 ELSE 1)
            /\ ~InputHasQueryType => QueryType.Name = "Query"
            /\ Count(QueryType.Refs, "__schema") = 1
            /\ Count(QueryType.Refs, "__type") = 1
            /\ InputHasQueryType =>
                  LET before == schema.input.ObjectTypeDefinitions[schema.queryNodeRef + 1].Refs
                  IN SubSeq(QueryType.Refs, 1, Len(before)) = before)
    /\ [][(schema # Nil /\ schema.pc = "merged") =>
            schema'.definition = schema.definition]_vars

\* a document without a query type got the type Query imported, and the fields
\* were applied a second time to it
C30_Witness ==
    /\ schema # Nil
    /\ schema.pc = "again"
    /\ ~schema.hasQueryNode
    /\ Len(schema.input.ObjectTypeDefinitions) = 2
    /\ QueryType = [Name |-> "Query", Refs |-> <<"__schema", "__type", "__typename">>]

\* the query type of the input already had __type and the field a
C30_WitnessPresent ==
    /\ schema # Nil
    /\ schema.pc = "again"
    /\ schema.hasQueryNode
    /\ schema.input.QueryTypeName = "MyQuery"
    /\ QueryType = [Name |-> "MyQuery", Refs |-> <<"__type", "a", "__schema", "__typename">>]


OperationTypes == {"query", "mutation", "subscription"}
DefaultTypeName(operationType) ==
    CASE operationType = "query" -> DefaultQueryTypeName
      [] operationType = "mutation" -> DefaultMutationTypeName
      [] operationType = "subscription" -> DefaultSubscriptionTypeName
\* the root operation type definitions of that operation type, by position
RootsOf(roots, operationType) ==
    { k \in 1..Len(roots) : roots[k].OperationType = operationType }
\* the merged document has an object type of that name
HasObjectType(name) ==
    \E k \in 1..Len(schema.definition.ObjectTypeDefinitions) :
        schema.definition.ObjectTypeDefinitions[k].Name = name

\* C31: after handleSchema the document has a schema definition; the root
\* operation type definitions of the input are all still there, unchanged and
\* in front; there is at most one root operation type definition per
\* operation type; and one was created for an operation type exactly when the
\* input had none of that type and the document has an object type of the
\* default name (Query, Mutation, Subscription), which it then names.
C31_RootOperationTypes ==
    Merged =>
        LET before == schema.input.RootOperationTypeDefinitions
            after == schema.definition.RootOperationTypeDefinitions
        IN /\ schema.definition.HasSchemaDefinition
           /\ Len(after) >= Len(before)
           /\ SubSeq(after, 1, Len(before)) = before
           /\ \A t \in OperationTypes :
                /\ Cardinality(RootsOf(after, t)) <= 1
                /\ (\E k \in RootsOf(after, t) : k > Len(before)) <=>
                      (RootsOf(before, t) = {} /\ HasObjectType(DefaultTypeName(t)))
                /\ \A k \in RootsOf(after, t) :
                      k > Len(before) => after[k].Name = DefaultTypeName(t)

\* the input had a schema definition with a mutation type only and the types
\* Subscription and Mutation: a subscription root and, for the imported type
\* Query, a query root were created behind the mutation root, which was kept
C31_Witness ==
    /\ Merged
    /\ schema.input.HasSchemaDefinition
    /\ ~schema.hasQueryNode
    /\ schema.definition.RootOperationTypeDefinitions =
          << [OperationType |-> "mutation", Name |-> DefaultMutationTypeName],
             [OperationType |-> "subscription", Name |-> DefaultSubscriptionTypeName],
             [OperationType |-> "query", Name |-> DefaultQueryTypeName] >>


-----------------------------------------------------------------------------
(* Properties of a Planner whose configuration is changed, checked under ConfigSpec *)

\* C32: whatever calls of NewPlanner, SetConfig and SetDebugConfig came
\* before, the data sources of the configuration a running Plan call works
\* with have pairwise distinct ids.
C32_DistinctIds ==
    InPlan => ~HasDuplicateIds(p.config.DataSources)

\* C33: in a Plan call the visitors work with the configuration the Planner
\* has, that is the one of the last SetConfig, or of NewPlanner when there was
\* none: once a configuration pass has run, the configuration visitor has the
\* field configurations of that configuration and only data sources of it;
\* once the planning walk has run, the planning visitor has its
\* DisableResolveFieldPositions setting and has it as its Config.
C33_SetConfigUsed ==
    InPlan =>
        /\ passes > 0 =>
              /\ p.configurationVisitor.fieldConfigurations = p.config.Fields
              /\ \A k \in 1..Len(p.configurationVisitor.dataSources) :
                    \E n \in 1..Len(p.config.DataSources) :
                        p.config.DataSources[n] = p.configurationVisitor.dataSources[k]
        /\ "planningWalk" \in ran =>
              /\ p.planningVisitor.disableResolveFieldPositions =
                    p.config.DisableResolveFieldPositions
              /\ p.planningVisitor.Config = p.config


\* C34: in every Plan call on a Planner, also one used before, the planning
\* visitor's includeQueryPlans is the option this call was given, the first
\* configuration pass leaves (and so ran with) secondaryRun false and every
\* later pass of the call secondaryRun true.
C34_NoOptionLeak ==
    /\ [](InPlan =>
            (p.planningVisitor.includeQueryPlans <=> call.opts.includeQueryPlanInResponse))
    /\ [][pc = "initialWalk" => ~p'.configurationVisitor.secondaryRun]_vars
    /\ [][pc = "secondaryWalk" => p'.configurationVisitor.secondaryRun]_vars

\* the second call on the Planner, made without the option after a first call
\* with it that made secondary passes, has made its first pass
C34_Witness ==
    /\ Len(done) = 1
    /\ done[1].opts.includeQueryPlanInResponse
    /\ done[1].i > 1
    /\ ~call.opts.includeQueryPlanInResponse
    /\ pc = "revisit"
    /\ passes = 1
    /\ ~p.configurationVisitor.secondaryRun
    /\ ~p.planningVisitor.includeQueryPlans


-----------------------------------------------------------------------------
(* Further properties of the Planner, checked under Spec *)

\* C35: a Plan call whose report held an error when it was called runs
\* selectOperation and returns: no other stage is started, no configuration
\* pass is made, the data source selector is not called, and the Plan
\* returned is nil.
C35_ErrorAtEntry ==
    (InPlan /\ HasErrors(call.reportAtEntry)) =>
        /\ pc \in {"selectOperation", "returned"}
        /\ ran \subseteq {"selectOperation"}
        /\ passes = 0
        /\ call.selector = Nil
        /\ call.registered = <<>>
        /\ call.plan = Nil

\* the operation A was selected from a document of two operations under a
\* configuration of two data sources; selectOperation added nothing to the
\* caller's error, and the call has returned
C35_Witness ==
    /\ PlanReturned
    /\ call.reportAtEntry = <<CallerError>>
    /\ call.report = call.reportAtEntry
    /\ Len(call.operation.operationDefinitions) = 2
    /\ p.planningVisitor.OperationName = NameA
    /\ Len(p.config.DataSources) = 2
    /\ ran = {"selectOperation"}


-----------------------------------------------------------------------------
(* Algebraic properties of the selector, checked under FilterSpec *)

\* the places of list at which the elements of sub can be found, in order
Embeddings(sub, list) ==
    { f \in [1..Len(sub) -> 1..Len(list)] :
        /\ \A i \in 1..Len(sub) : list[f[i]] = sub[i]
        /\ \A i, j \in 1..Len(sub) : i < j => f[i] < f[j] }

\* C36: the list FilterDataSources returns holds no data source twice and is
\* a subsequence of the list it was given (its elements are elements of that
\* list, in the order they have there); FilterDataSources applied to the
\* returned list for the same operation returns that list again.
C36_Idempotent ==
    ReturnedOk =>
        /\ \A i, j \in 1..Len(fResult.filtered) :
              i # j => fResult.filtered[i] # fResult.filtered[j]
        /\ Embeddings(fResult.filtered, fDataSources) # {}
        /\ FilterDataSources(fOperation, fReport, fResult.filtered).err = NoErr
        /\ FilterDataSources(fOperation, fReport, fResult.filtered).filtered = fResult.filtered

\* of three data sources the first and the last were returned
C36_Witness ==
    /\ ReturnedOk
    /\ Len(fDataSources) = 3
    /\ fResult.filtered = << fDataSources[1], fDataSources[3] >>
    /\ fDataSources[2] \notin { fDataSources[1], fDataSources[3] }
    /\ fDataSources[1] # fDataSources[3]


-----------------------------------------------------------------------------
(* Termination of the selector, checked under SearchLiveSpec *)

\* the report held an error after a walk and the call on top returns it
Unwinding ==
    /\ fPc = "search"
    /\ Top.state = "done"
    /\ Top.err = ReportErr

\* C37: the search returns; every call of findBestDataSourceSet that is
\* running was made on a list one element shorter than its caller's; a call
\* whose own assignment uses exactly one source has made no call; and once a
\* call has an error that is not field-not-resolvable, every step is a return
\* that hands the same error on, up to FilterDataSources, which returns it.
C37_Terminates ==
    /\ (fPc = "search") ~> (fPc = "returned")
    /\ [](\A k \in 2..Len(fStack) :
             /\ Len(fStack[k].dataSources) = Len(fStack[k - 1].dataSources) - 1
             /\ fStack[k - 1].state = "loop"
             /\ Len(fStack[k - 1].planned) # 1)
    /\ [][Unwinding =>
            /\ Len(fStack') = Len(fStack) - 1
            /\ fStack' # <<>> => (fStack'[Len(fStack')].state = "done"
                                    /\ fStack'[Len(fStack')].err = ReportErr)
            /\ fStack' = <<>> => (fPc' = "returned" /\ fResult'.err = ReportErr)]_vars
    /\ []((fPc = "returned" /\ ~fReport) =>
            /\ fResult.err = FilterDataSources(fOperation, FALSE, fDataSources).err
            /\ fResult.filtered = FilterDataSources(fOperation, FALSE, fDataSources).filtered)

\* a search over three sources for three fields returned two of them, which
\* it found by calling itself
C37_Witness ==
    /\ fPc = "returned"
    /\ ~fReport
    /\ Len(fDataSources) = 3
    /\ Len(fOperation) = 3
    /\ fResult.err = NoErr
    /\ Len(fResult.filtered) = 2

\* a call two levels down stands at its return with the report's error
C37_WitnessUnwinding == Unwinding /\ Len(fStack) >= 3

\* the search returned for the empty list and for the operation without fields
C37_WitnessEmpty ==
    /\ fPc = "returned"
    /\ ~fReport
    /\ (fDataSources = <<>> \/ fOperation = <<>>)
    /\ fResult.err = NoErr

====
